---- MODULE Spec2Model ----
(***************************************************************************)
(* A model of the boreal-smoke-nl ingestion backend: the CWFIS wildfire    *)
(* fetcher (format fallback, the three parsers, record normalization) and  *)
(* the validation utilities; the location deduplicator of the ingestion    *)
(* orchestrator; the Environment Canada AQHI fetcher and the predictor of  *)
(* update_data.py that turns the baseline and the fires into predictions.  *)
(*                                                                         *)
(* Conventions.                                                            *)
(*  - A Python str is a sequence of one-character strings, so that         *)
(*    upper(), strip(), split() and the `in` substring test are computed.  *)
(*  - A Python number is an integer count of tenths (47.5 is 475).         *)
(*  - A loosely typed Python value is a record [k, n, s]: k is its type    *)
(*    ("none", "num", "str"), n the number, s the characters.              *)
(***************************************************************************)
EXTENDS Integers, Sequences, FiniteSets, TLC

VARIABLES
    pc,        \* fetch_active_fires: where the call stands
    attempt,   \* fetch_active_fires: the attempt the retry decorator is at
    log,       \* fetch_active_fires: the requests sent so far, in order
    result,    \* fetch_active_fires: the list returned
    wallclock, \* the wall clock datetime.now() reads
    pFmt,      \* a parser call: which of _parse_csv/json/kml_fires
    pBody,     \* a parser call: the payload handed in
    pNow,      \* a parser call: the wall clock during the call
    pOut,      \* a parser call: [done, fires, failed], what it returned
    nRec,      \* one logical record [props, lat, lon] sent through each format
    nOut,      \* what each parser made of nRec, per format
    fdIn,      \* sanitize_fire_data: the dictionary handed in
    fdOut,     \* sanitize_fire_data: [done, exc, data], what it returned
    sIn,       \* _parse_fire_status: the status string handed in
    sOut,      \* _parse_fire_status: what it returned ("pending" before the call)
    dLocs,     \* _get_unique_locations: the (lat, lon) of the wildfires handed in
    dThreshold, \* _get_unique_locations: threshold_km
    dOut,      \* _get_unique_locations: [calls, first, second], what it returned
    aRss,      \* what the AQHI RSS feed answers
    aPage,     \* what the city page answers
    aOut,      \* fetch_all_aqhi: [done, raised, results]
    gFires,    \* generate_predictions_with_real_aqhi: the wildfires handed in
    gNow,      \* generate_predictions_with_real_aqhi: datetime.now(), in hours
    gOut,      \* generate_predictions_with_real_aqhi: [done, predictions]
    cvIn,      \* the index to PM2.5 conversion: two index values
    cvOut,     \* the index to PM2.5 conversion: [done, pm25, below, above]
    vData,     \* validate_data_source: the dictionary handed in
    vNow,      \* validate_data_source: datetime.now(), in minutes
    vOut,      \* validate_data_source: [done, value], what it returned
    rtIn,      \* a round trip: the entity handed to to_dict
    rtOut,     \* a round trip: [done, exc, back], what from_dict made of it
    wLocs,     \* fetch_bulk_weather: the locations handed in
    wHours,    \* fetch_bulk_weather: hours_ahead
    wCurrent,  \* whether the network gives the i-th call current conditions
    wOut,      \* fetch_bulk_weather: [done, raised, forecasts, attempted]
    cPc,       \* a cycle: the step update_data or run_ingestion is at
    cTrace,    \* a cycle: the stages run so far, in order
    cData,     \* a cycle: the entry point, what the source holds, the locals
    kProps,    \* _create_wildfire_from_properties: the properties handed in
    kOut,      \* _create_wildfire_from_properties: [done, fires]
    fOut,      \* _generate_community_files: [done, files]
    pbPc,      \* publish_to_github: the step it is at
    pbRepo     \* publish_to_github: the working copy

fetchVars == <<pc, attempt, log, result, wallclock>>
parseVars == <<pFmt, pBody, pNow, pOut>>
normVars == <<nRec, nOut>>
sanitizeVars == <<fdIn, fdOut>>
statusVars == <<sIn, sOut>>
dedupVars == <<dLocs, dThreshold, dOut>>
aqhiVars == <<aRss, aPage, aOut>>
predictVars == <<gFires, gNow, gOut>>
convertVars == <<cvIn, cvOut>>
ingestVars == <<fetchVars, parseVars, normVars, sanitizeVars, statusVars>>
impactVars == <<dedupVars, aqhiVars, predictVars, convertVars>>
validateVars == <<vData, vNow, vOut>>
roundTripVars == <<rtIn, rtOut>>
weatherVars == <<wLocs, wHours, wCurrent, wOut>>
runVars == <<cPc, cTrace, cData>>
aliasVars == <<kProps, kOut>>
fileVars == <<fOut>>
publishVars == <<pbPc, pbRepo>>
cycleVars ==
    <<validateVars, roundTripVars, weatherVars, runVars, aliasVars, fileVars,
      publishVars>>
vars == <<ingestVars, impactVars, cycleVars>>

\* a component that a specification leaves out stays parked
FetchParked ==
    pc = "parked" /\ attempt = 0 /\ log = <<>> /\ result = <<>> /\ wallclock = 0
ParseParked == pFmt = "parked" /\ pBody = <<>> /\ pNow = 0 /\ pOut = <<>>
NormParked == nRec = <<>> /\ nOut = <<>>
SanitizeParked == fdIn = <<>> /\ fdOut = <<>>
DedupParked == dLocs = <<>> /\ dThreshold = 0 /\ dOut = <<>>
AqhiParked == aRss = <<>> /\ aPage = <<>> /\ aOut = <<>>
PredictParked == gFires = <<>> /\ gNow = 0 /\ gOut = <<>>
ConvertParked == cvIn = <<>> /\ cvOut = <<>>
ImpactParked == DedupParked /\ AqhiParked /\ PredictParked /\ ConvertParked
StatusParked == sIn = <<>> /\ sOut = "parked"
ValidateParked == vData = <<>> /\ vNow = 0 /\ vOut = <<>>
RoundTripParked == rtIn = <<>> /\ rtOut = <<>>
WeatherParked == wLocs = <<>> /\ wHours = 0 /\ wCurrent = <<>> /\ wOut = <<>>
RunParked == cPc = "parked" /\ cTrace = <<>> /\ cData = <<>>
AliasParked == kProps = <<>> /\ kOut = <<>>
FilesParked == fOut = <<>>
PublishParked == pbPc = "parked" /\ pbRepo = <<>>
CycleParked ==
    /\ ValidateParked /\ RoundTripParked /\ WeatherParked /\ RunParked
    /\ AliasParked /\ FilesParked /\ PublishParked
IngestParked ==
    FetchParked /\ ParseParked /\ NormParked /\ SanitizeParked /\ StatusParked

\* the variables outside each component
fetchOthers == <<parseVars, normVars, sanitizeVars, statusVars, impactVars, cycleVars>>
parseOthers == <<fetchVars, normVars, sanitizeVars, statusVars, impactVars, cycleVars>>
normOthers == <<fetchVars, parseVars, sanitizeVars, statusVars, impactVars, cycleVars>>
sanitizeOthers == <<fetchVars, parseVars, normVars, statusVars, impactVars, cycleVars>>
statusOthers == <<fetchVars, parseVars, normVars, sanitizeVars, impactVars, cycleVars>>
dedupOthers == <<ingestVars, aqhiVars, predictVars, convertVars,
    cycleVars>>
aqhiOthers == <<ingestVars, dedupVars, predictVars, convertVars,
    cycleVars>>
predictOthers == <<ingestVars, dedupVars, convertVars,
    cycleVars>>
convertOthers == <<ingestVars, dedupVars, aqhiVars, predictVars,
    cycleVars>>
validateOthers ==
    <<ingestVars, impactVars, roundTripVars, weatherVars, runVars, aliasVars,
      fileVars, publishVars>>
roundTripOthers ==
    <<ingestVars, impactVars, validateVars, weatherVars, runVars, aliasVars,
      fileVars, publishVars>>
weatherOthers ==
    <<ingestVars, impactVars, validateVars, roundTripVars, runVars, aliasVars,
      fileVars, publishVars>>
runOthers ==
    <<ingestVars, impactVars, validateVars, roundTripVars, weatherVars, aliasVars,
      fileVars, publishVars>>
publishOthers ==
    <<ingestVars, impactVars, validateVars, roundTripVars, weatherVars, runVars,
      aliasVars, fileVars>>
aliasOthers ==
    <<ingestVars, impactVars, validateVars, roundTripVars, weatherVars, runVars,
      fileVars, publishVars>>

-----------------------------------------------------------------------------
(* Python str helpers *)

LowerAlpha == <<"a","b","c","d","e","f","g","h","i","j","k","l","m",
                "n","o","p","q","r","s","t","u","v","w","x","y","z">>
UpperAlpha == <<"A","B","C","D","E","F","G","H","I","J","K","L","M",
                "N","O","P","Q","R","S","T","U","V","W","X","Y","Z">>

UpperChar(c) ==
    IF \E i \in 1..Len(LowerAlpha) : LowerAlpha[i] = c
    THEN UpperAlpha[CHOOSE i \in 1..Len(LowerAlpha) : LowerAlpha[i] = c]
    ELSE c

LowerChar(c) ==
    IF \E i \in 1..Len(UpperAlpha) : UpperAlpha[i] = c
    THEN LowerAlpha[CHOOSE i \in 1..Len(UpperAlpha) : UpperAlpha[i] = c]
    ELSE c

\* str.upper()
Upper(s) == [i \in 1..Len(s) |-> UpperChar(s[i])]

\* str.lower()
Lower(s) == [i \in 1..Len(s) |-> LowerChar(s[i])]

\* `key in s` for two str
Contains(s, key) ==
    \E i \in 1..(Len(s) - Len(key) + 1) : SubSeq(s, i, i + Len(key) - 1) = key


\* str.strip(): leading and trailing blanks removed
RECURSIVE LStrip(_)
LStrip(s) == IF s /= <<>> /\ Head(s) = " " THEN LStrip(Tail(s)) ELSE s

RECURSIVE RStrip(_)
RStrip(s) ==
    IF s /= <<>> /\ s[Len(s)] = " " THEN RStrip(SubSeq(s, 1, Len(s) - 1)) ELSE s

Strip(s) == RStrip(LStrip(s))

\* str.split(sep): the pieces between the separators
RECURSIVE Split(_, _)
Split(s, sep) ==
    IF \A i \in 1..Len(s) : s[i] /= sep THEN <<s>>
    ELSE LET i == CHOOSE j \in 1..Len(s) :
                      s[j] = sep /\ \A k \in 1..(j - 1) : s[k] /= sep
         IN  <<SubSeq(s, 1, i - 1)>> \o Split(SubSeq(s, i + 1, Len(s)), sep)

Digits == <<"0","1","2","3","4","5","6","7","8","9">>

IsDigit(c) == \E i \in 1..10 : Digits[i] = c

DigitVal(c) == (CHOOSE i \in 1..10 : Digits[i] = c) - 1

\* the number a string of digits spells (0 for the empty string)
RECURSIVE DigitsVal(_)
DigitsVal(s) ==
    IF s = <<>> THEN 0
    ELSE 10 * DigitsVal(SubSeq(s, 1, Len(s) - 1)) + DigitVal(s[Len(s)])

\* the digits of a natural number
RECURSIVE NatStr(_)
NatStr(n) ==
    IF n < 10 THEN <<Digits[n + 1]>> ELSE NatStr(n \div 10) \o <<Digits[(n % 10) + 1]>>

-----------------------------------------------------------------------------
(* Loosely typed Python values: None, a number (in tenths), a str *)

PyNone == [k |-> "none", n |-> 0, s |-> <<>>]
Num(n) == [k |-> "num", n |-> n, s |-> <<>>]
Str(s) == [k |-> "str", n |-> 0, s |-> s]

\* bool(v)
Truthy(v) ==
    CASE v.k = "none" -> FALSE
      [] v.k = "num"  -> v.n /= 0
      [] v.k = "str"  -> v.s /= <<>>

\* a or b
Or(a, b) == IF Truthy(a) THEN a ELSE b

\* dict.get(key, default)
Get(d, key, default) == IF key \in DOMAIN d THEN d[key] ELSE default

\* The result of float(): exc is "" or the exception raised; nan marks
\* not-a-number; n is the value in tenths (digits after the first decimal
\* place are dropped).
FloatOk(n) == [exc |-> "", nan |-> FALSE, n |-> n]
FloatNaN == [exc |-> "", nan |-> TRUE, n |-> 0]
FloatRaise(e) == [exc |-> e, nan |-> FALSE, n |-> 0]

S_NAN == <<"N","A","N">>

\* float(s) for a str
FloatOfStr(s0) ==
    LET s    == Strip(s0)
        neg  == s /= <<>> /\ Head(s) = "-"
        body == IF s /= <<>> /\ Head(s) \in {"-", "+"} THEN Tail(s) ELSE s
        parts == Split(body, ".")
        ip   == parts[1]
        fp   == IF Len(parts) = 2 THEN parts[2] ELSE <<>>
        wellFormed ==
            /\ Len(parts) <= 2
            /\ Len(ip) + Len(fp) > 0
            /\ \A i \in 1..Len(ip) : IsDigit(ip[i])
            /\ \A i \in 1..Len(fp) : IsDigit(fp[i])
        mag  == 10 * DigitsVal(ip) + (IF fp = <<>> THEN 0 ELSE DigitVal(fp[1]))
    IN  IF Upper(body) = S_NAN THEN FloatNaN
        ELSE IF wellFormed THEN FloatOk(IF neg THEN -mag ELSE mag)
        ELSE FloatRaise("ValueError")

\* float(v)
Float(v) ==
    CASE v.k = "none" -> FloatRaise("TypeError")
      [] v.k = "num"  -> FloatOk(v.n)
      [] v.k = "str"  -> FloatOfStr(v.s)

\* str(v) for a number or a str
ToStr(v) ==
    IF v.k = "str" THEN v.s
    ELSE LET a == IF v.n < 0 THEN -v.n ELSE v.n
             sign == IF v.n < 0 THEN <<"-">> ELSE <<>>
         IN  sign \o NatStr(a \div 10)
                  \o (IF a % 10 = 0 THEN <<>> ELSE <<".", Digits[(a % 10) + 1]>>)

-----------------------------------------------------------------------------
(* datetime: strptime over the six known formats, and datetime.now() *)

\* A format is written with the letters Y m d H M S standing for the digits
\* of a field and every other character standing for itself.
FieldLetters == {"Y", "m", "d", "H", "M", "S"}

DateFormats == <<
    <<"Y","Y","Y","Y","-","m","m","-","d","d"," ","H","H",":","M","M",":","S","S">>,
    <<"Y","Y","Y","Y","-","m","m","-","d","d","T","H","H",":","M","M",":","S","S">>,
    <<"Y","Y","Y","Y","-","m","m","-","d","d","T","H","H",":","M","M",":","S","S","Z">>,
    <<"Y","Y","Y","Y","-","m","m","-","d","d">>,
    <<"Y","Y","Y","Y","/","m","m","/","d","d"," ","H","H",":","M","M",":","S","S">>,
    <<"Y","Y","Y","Y","/","m","m","/","d","d">> >>

\* the digits of s that stand at the places of one field of the format
RECURSIVE FieldDigits(_, _, _)
FieldDigits(s, fmt, letter) ==
    IF s = <<>> THEN <<>>
    ELSE (IF Head(fmt) = letter THEN <<Head(s)>> ELSE <<>>)
             \o FieldDigits(Tail(s), Tail(fmt), letter)

FieldVal(s, fmt, letter) == DigitsVal(FieldDigits(s, fmt, letter))

\* datetime.strptime(s, fmt) succeeds
StrptimeOk(s, fmt) ==
    /\ Len(s) = Len(fmt)
    /\ \A i \in 1..Len(fmt) :
          IF fmt[i] \in FieldLetters THEN IsDigit(s[i]) ELSE s[i] = fmt[i]
    /\ FieldVal(s, fmt, "Y") >= 1
    /\ FieldVal(s, fmt, "m") \in 1..12
    /\ FieldVal(s, fmt, "d") \in 1..31
    /\ FieldVal(s, fmt, "H") \in 0..23
    /\ FieldVal(s, fmt, "M") \in 0..59
    /\ FieldVal(s, fmt, "S") \in 0..61

\* the datetime strptime returns
Strptime(s, fmt) ==
    [y  |-> FieldVal(s, fmt, "Y"), mo |-> FieldVal(s, fmt, "m"),
     d  |-> FieldVal(s, fmt, "d"), h  |-> FieldVal(s, fmt, "H"),
     mi |-> FieldVal(s, fmt, "M"), sec |-> FieldVal(s, fmt, "S")]

\* datetime.now() when the wall clock shows `clock` seconds into the run
Now(clock) == [y |-> 2025, mo |-> 8, d |-> 1, h |-> 12, mi |-> 0, sec |-> clock]

NoDate == [y |-> 0, mo |-> 0, d |-> 0, h |-> 0, mi |-> 0, sec |-> 0]

\* WildfireFetcher._parse_date: exc is the exception that escapes ("" if none),
\* none says that None is returned, dt is the datetime otherwise.
ParseDate(date_str) ==
    IF ~Truthy(date_str) THEN [exc |-> "", none |-> TRUE, dt |-> NoDate]
    ELSE IF date_str.k /= "str" THEN [exc |-> "TypeError", none |-> FALSE, dt |-> NoDate]
    ELSE LET hits == {i \in 1..Len(DateFormats) : StrptimeOk(date_str.s, DateFormats[i])}
         IN  IF hits = {} THEN [exc |-> "", none |-> TRUE, dt |-> NoDate]
             ELSE [exc |-> "", none |-> FALSE,
                   dt |-> Strptime(date_str.s,
                                   DateFormats[CHOOSE i \in hits : \A j \in hits : i <= j])]

-----------------------------------------------------------------------------
(* WildfireFetcher._parse_fire_status *)

FireStatuses == {"OUT_OF_CONTROL", "BEING_HELD", "UNDER_CONTROL", "OUT", "UNKNOWN"}

S_OC == <<"O","C">>
S_OUT_OF_CONTROL == <<"O","U","T"," ","O","F"," ","C","O","N","T","R","O","L">>
S_BH == <<"B","H">>
S_BEING_HELD == <<"B","E","I","N","G"," ","H","E","L","D">>
S_UC == <<"U","C">>
S_UNDER_CONTROL == <<"U","N","D","E","R"," ","C","O","N","T","R","O","L">>
S_OUT == <<"O","U","T">>
S_EXTINGUISHED == <<"E","X","T","I","N","G","U","I","S","H","E","D">>
S_UNK == <<"U","N","K">>

\* status_map, in the insertion order the dict is iterated in
StatusMap == <<
    [key |-> S_OC,             value |-> "OUT_OF_CONTROL"],
    [key |-> S_OUT_OF_CONTROL, value |-> "OUT_OF_CONTROL"],
    [key |-> S_BH,             value |-> "BEING_HELD"],
    [key |-> S_BEING_HELD,     value |-> "BEING_HELD"],
    [key |-> S_UC,             value |-> "UNDER_CONTROL"],
    [key |-> S_UNDER_CONTROL,  value |-> "UNDER_CONTROL"],
    [key |-> S_OUT,            value |-> "OUT"],
    [key |-> S_EXTINGUISHED,   value |-> "OUT"] >>

\* The mutant: the table is searched in the string as given, without upper().
ParseFireStatusCaseSensitive(status_str) ==
    LET hits == {i \in 1..Len(StatusMap) : Contains(status_str, StatusMap[i].key)}
    IN  IF hits = {} THEN "UNKNOWN"
        ELSE StatusMap[CHOOSE i \in hits : \A j \in hits : i <= j].value

ParseFireStatus(status_str) ==
    LET status_upper == Upper(status_str)
        hits == {i \in 1..Len(StatusMap) : Contains(status_upper, StatusMap[i].key)}
    IN  IF hits = {} THEN "UNKNOWN"
        ELSE StatusMap[CHOOSE i \in hits : \A j \in hits : i <= j].value

-----------------------------------------------------------------------------
(* WildfireFetcher: bounds, record normalization *)

\* NL_BOUNDS, in tenths of a degree
MinLat == 465
MaxLat == 605
MinLon == -675
MaxLon == -525

\* The mutant: `or` between the latitude test and the longitude test.
IsInNlBoundsOr(lat, lon) ==
    \/ (MinLat <= lat /\ lat <= MaxLat)
    \/ (MinLon <= lon /\ lon <= MaxLon)

\* WildfireFetcher._is_in_nl_bounds, for two numbers
IsInNlBounds(lat, lon) ==
    /\ MinLat <= lat /\ lat <= MaxLat
    /\ MinLon <= lon /\ lon <= MaxLon

S_NL_PREFIX == <<"N","L","_">>
S_nl == <<"n","l">>
S_NL == <<"N","L">>
S_GMT == <<"G","M","T">>

\* f"NL_{datetime.now().timestamp()}"
GeneratedFireId(clock) == S_NL_PREFIX \o NatStr(clock)

\* WildfireFetcher._create_wildfire_from_properties: <<the Wildfire>>, or <<>>
\* when the method returns None (an exception was caught).
CreateWildfireFromProperties(properties, lat, lon, clock) ==
    LET fire_id ==
            Or(Or(Or(Get(properties, "fire_id", PyNone),
                     Get(properties, "FIRE_ID", PyNone)),
                  Get(properties, "irwinID", PyNone)),
               Str(GeneratedFireId(clock)))
        size ==
            Float(Or(Or(Or(Get(properties, "hectares", Num(0)),
                           Get(properties, "HECTARES", Num(0))),
                        Get(properties, "area", Num(0))),
                     Num(0)))
        status_val ==
            Or(Or(Get(properties, "status", Str(S_UNK)),
                  Get(properties, "STATUS", Str(S_UNK))),
               Str(S_UNK))
        start_date ==
            ParseDate(Or(Or(Get(properties, "start_date", PyNone),
                            Get(properties, "START_DATE", PyNone)),
                         Get(properties, "discovered_date", PyNone)))
        last_updated ==
            ParseDate(Or(Or(Get(properties, "last_updated", PyNone),
                            Get(properties, "LAST_UPDATED", PyNone)),
                         Get(properties, "modified_date", PyNone)))
        raised ==
            \/ size.exc /= ""
            \/ status_val.k /= "str"          \* .upper() of a number
            \/ start_date.exc /= ""
            \/ last_updated.exc /= ""
    IN  IF raised THEN <<>>
        ELSE << [fire_id       |-> ToStr(fire_id),
                 latitude      |-> lat,
                 longitude     |-> lon,
                 size_hectares |-> [nan |-> size.nan, n |-> size.n],
                 status        |-> ParseFireStatus(Upper(status_val.s)),
                 start_date    |-> IF start_date.none THEN Now(clock) ELSE start_date.dt,
                 last_updated  |-> IF last_updated.none THEN Now(clock)
                                   ELSE last_updated.dt,
                 agency        |-> Get(properties, "agency", Str(S_NL)),
                 fire_name     |-> Get(properties, "fire_name", PyNone),
                 cause         |-> Get(properties, "cause", PyNone)] >>

-----------------------------------------------------------------------------
(* WildfireFetcher: the three parsers *)

\* What one pass of a parser's loop body does: exc says that an exception
\* left the loop body (the try around the whole loop catches it), fires is
\* what the pass appended.
Skip == [exc |-> FALSE, fires |-> <<>>]
Abort == [exc |-> TRUE, fires |-> <<>>]
Made(fires) == [exc |-> FALSE, fires |-> fires]

\* The for loop inside the parser's try: an exception ends the loop, the
\* except logs it, and the fires appended so far are returned.
RECURSIVE RunLoop(_)
RunLoop(passes) ==
    IF passes = <<>> THEN [fires |-> <<>>, failed |-> FALSE]
    ELSE IF Head(passes).exc THEN [fires |-> <<>>, failed |-> TRUE]
    ELSE LET rest == RunLoop(Tail(passes))
         IN  [fires |-> Head(passes).fires \o rest.fires, failed |-> rest.failed]

\* row = {k.strip(): v.strip() if v else v ...}: the values of a csv row
StripCells(cells) ==
    [k \in DOMAIN cells |->
        IF Truthy(cells[k]) THEN Str(Strip(cells[k].s)) ELSE cells[k]]

\* One row of _parse_csv_fires. A row is [cells, extra]: cells maps the
\* header's column names to a str, or to None where the row is short; extra
\* says that the row has more fields than the header (DictReader files them
\* under the key None).
CsvRow(row, clock) ==
    IF row.extra THEN Abort                       \* None.strip()
    ELSE
    LET r == StripCells(row.cells)
        lat == Float(Get(r, "lat", Get(r, "latitude", Num(0))))
        lon == Float(Get(r, "lon", Get(r, "longitude", Num(0))))
        agency == Get(r, "agency", Str(<<>>))
        properties ==
            [fire_id       |-> Get(r, "firename", Str(<<>>)),
             agency        |-> Get(r, "agency", Str(<<>>)),
             lat           |-> Num(lat.n),
             lon           |-> Num(lon.n),
             latitude      |-> Num(lat.n),
             longitude     |-> Num(lon.n),
             hectares      |-> Get(r, "hectares", Num(0)),
             status        |-> Get(r, "stage_of_control", Str(S_UNK)),
             start_date    |-> Get(r, "startdate", Str(<<>>)),
             response_type |-> Get(r, "response_type", Str(<<>>)),
             timezone      |-> Get(r, "timezone", Str(S_GMT))]
    IN  IF lat.exc /= "" \/ lon.exc /= "" THEN Skip
        ELSE IF lat.nan \/ lon.nan \/ ~IsInNlBounds(lat.n, lon.n) THEN Skip
        ELSE IF agency.k /= "str" THEN Abort      \* None.lower()
        ELSE IF Lower(agency.s) /= S_nl THEN Skip
        ELSE Made(CreateWildfireFromProperties(properties, lat.n, lon.n, clock))

\* WildfireFetcher._parse_csv_fires
ParseCsvFires(rows, clock) ==
    RunLoop([i \in 1..Len(rows) |-> CsvRow(rows[i], clock)])

\* One feature of _parse_json_fires. A feature is [pk, props, gk, coords]:
\* pk and gk say whether 'properties' and 'geometry' are a dict, null or
\* absent; coords is geometry's 'coordinates' list.
JsonFeature(f, clock) ==
    LET properties == IF f.pk = "dict" THEN f.props ELSE <<>>
        coords == IF f.gk = "dict" THEN f.coords ELSE <<>>
        lon == coords[1]
        lat == coords[2]
        agency == Get(properties, "agency", Str(<<>>))
    IN  IF f.gk = "null" THEN Abort               \* None.get
        ELSE IF Len(coords) < 2 THEN Skip
        ELSE IF lat.k /= "num" THEN Abort         \* float <= str
        ELSE IF ~(MinLat <= lat.n /\ lat.n <= MaxLat) THEN Skip
        ELSE IF lon.k /= "num" THEN Abort
        ELSE IF ~IsInNlBounds(lat.n, lon.n) THEN Skip
        ELSE IF f.pk = "null" THEN Abort          \* None.get
        ELSE IF agency.k /= "str" THEN Abort      \* .lower() of a number or None
        ELSE IF Lower(agency.s) /= S_nl THEN Skip
        ELSE Made(CreateWildfireFromProperties(properties, lat.n, lon.n, clock))

\* WildfireFetcher._parse_json_fires; data is [shape, recs]: shape says
\* whether the document is an object or an array, recs is its 'features'.
ParseJsonFires(data, clock) ==
    IF data.shape /= "object" THEN [fires |-> <<>>, failed |-> TRUE]   \* list.get
    ELSE RunLoop([i \in 1..Len(data.recs) |-> JsonFeature(data.recs[i], clock)])

\* One Placemark of _parse_kml_fires. A placemark is [point, coordsElem,
\* text, hasExt, data]: whether it has a Point, whether the Point has a
\* coordinates element, that element's text, whether it has ExtendedData,
\* and the Data name -> value text.
KmlPlacemark(p, clock) ==
    LET coords == Split(Strip(p.text), ",")
        lon == FloatOfStr(coords[1])
        lat == FloatOfStr(coords[2])
        properties ==
            IF p.hasExt
            THEN [k \in {x \in DOMAIN p.data : Truthy(p.data[x])} |-> p.data[k]]
            ELSE <<>>
        agency == Get(properties, "agency", Str(<<>>))
    IN  IF ~p.point THEN Skip
        ELSE IF ~p.coordsElem THEN Abort          \* None.text
        ELSE IF Len(coords) < 2 THEN Skip
        ELSE IF lon.exc /= "" \/ lat.exc /= "" THEN Abort   \* float('x')
        ELSE IF lat.nan \/ lon.nan \/ ~IsInNlBounds(lat.n, lon.n) THEN Skip
        ELSE IF Lower(agency.s) /= S_nl THEN Skip
        ELSE Made(CreateWildfireFromProperties(properties, lat.n, lon.n, clock))

\* WildfireFetcher._parse_kml_fires
ParseKmlFires(placemarks, clock) ==
    RunLoop([i \in 1..Len(placemarks) |-> KmlPlacemark(placemarks[i], clock)])

-----------------------------------------------------------------------------
(* WildfireFetcher: the three requests and fetch_active_fires *)

\* What session.get and raise_for_status can do.
HttpOutcomes == {"ok", "network_error", "timeout", "http_5xx", "http_4xx"}
TransientOutcomes == {"network_error", "timeout", "http_5xx"}

\* A response body is [shape, recs]. csv and kml: shape "empty" is the empty
\* text, "text" a text with the records recs. json: "invalid" does not
\* decode, "empty" is {} or [], "array" a non-empty array, "object" an
\* object whose 'features' are recs.
NoBody == [shape |-> "none", recs |-> <<>>]

\* What a _fetch_* method hands back: raised says that an exception left
\* it, some that the value is not None.
Returned(body) == [raised |-> FALSE, some |-> TRUE, body |-> body]
ReturnedNone == [raised |-> FALSE, some |-> FALSE, body |-> NoBody]
Raised == [raised |-> TRUE, some |-> FALSE, body |-> NoBody]

\* The mutant: _fetch_csv_fires without its try/except.
FetchCsvFiresNoCatch(http, body) ==
    IF http = "ok" THEN Returned(body) ELSE Raised

\* WildfireFetcher._fetch_csv_fires
FetchCsvFires(http, body) ==
    IF http = "ok" THEN Returned(body) ELSE ReturnedNone

\* WildfireFetcher._fetch_json_fires: response.json() raises on a body that
\* does not decode, inside the same try
FetchJsonFires(http, body) ==
    IF http = "ok" /\ body.shape /= "invalid" THEN Returned(body) ELSE ReturnedNone

\* WildfireFetcher._fetch_kml_fires
FetchKmlFires(http, body) ==
    IF http = "ok" THEN Returned(body) ELSE ReturnedNone

FetchFires(fmt, http, body) ==
    CASE fmt = "csv"  -> FetchCsvFires(http, body)
      [] fmt = "json" -> FetchJsonFires(http, body)
      [] fmt = "kml"  -> FetchKmlFires(http, body)

\* `if response:` the value is not None, not '', not {} and not []
ResponseTruthy(r) == r.some /\ r.body.shape /= "empty"

ParseFires(fmt, body, clock) ==
    CASE fmt = "csv"  -> ParseCsvFires(body.recs, clock)
      [] fmt = "json" -> ParseJsonFires(body, clock)
      [] fmt = "kml"  -> ParseKmlFires(body.recs, clock)

\* The mutant: the csv branch falls through to the KML request.
AfterFailureSkipsJson(fmt) ==
    CASE fmt = "csv"  -> "kml"
      [] fmt = "json" -> "kml"
      [] fmt = "kml"  -> "done"

\* fetch_active_fires: the statement reached when `if response:` is false
AfterFailure(fmt) ==
    CASE fmt = "csv"  -> "json"
      [] fmt = "json" -> "kml"
      [] fmt = "kml"  -> "done"          \* return []

\* @retry(stop=stop_after_attempt(3), ...)
MaxAttempts == 3

\* tenacity: what the decorator does with the outcome of one attempt
RetryDecision(raised, att) ==
    IF ~raised THEN "return"
    ELSE IF att < MaxAttempts THEN "retry"
    ELSE "raise"

-----------------------------------------------------------------------------
(* The status strings the check ranges over *)

MaxStatusLen == 3

StatusAlphabet == {"O", "C", "o", "c", "U", "B", "H", "T", "X", " "}

RECURSIVE SeqsUpTo(_, _)
SeqsUpTo(S, n) ==
    IF n = 0 THEN {<<>>}
    ELSE LET shorter == SeqsUpTo(S, n - 1)
         IN  shorter \cup {Append(s, c) : s \in shorter, c \in S}

\* every mix of upper and lower case of a string
RECURSIVE CaseVariants(_)
CaseVariants(s) ==
    IF s = <<>> THEN {<<>>}
    ELSE {<<c>> \o rest : c \in {UpperChar(Head(s)), LowerChar(Head(s))},
                          rest \in CaseVariants(Tail(s))}

StatusPhrases ==
    {S_OUT_OF_CONTROL, S_BEING_HELD, S_UNDER_CONTROL, S_EXTINGUISHED, S_UNK,
     <<"o","u","t"," ","o","f"," ","c","o","n","t","r","o","l">>,
     <<"O","u","t"," ","O","f"," ","C","o","n","t","r","o","l">>,
     <<"F","i","r","e"," ","o","u","t"," ","o","f"," ","c","o","n","t","r","o","l","!">>,
     <<"b","e","i","n","g"," ","h","e","l","d">>,
     <<"U","n","d","e","r"," ","C","o","n","t","r","o","l">>,
     <<"e","x","t","i","n","g","u","i","s","h","e","d">>,
     <<"B","L","O","C","K","E","D">>,
     <<"l","o","c","a","l">>,
     <<"S","U","C","H">>,
     <<"N","O","N","E">>,
     <<"A","C","T","I","V","E">>}

StatusStrings ==
    SeqsUpTo(StatusAlphabet, MaxStatusLen) \cup StatusPhrases
        \cup CaseVariants(S_OC) \cup CaseVariants(S_OUT)

StatusInit ==
    /\ sIn \in StatusStrings
    /\ sOut = "pending"
    /\ FetchParked /\ ParseParked /\ NormParked /\ SanitizeParked /\ ImpactParked
    /\ CycleParked

\* one call of _parse_fire_status
CallParseFireStatus ==
    /\ sOut = "pending"
    /\ sOut' = ParseFireStatus(sIn)
    /\ UNCHANGED <<sIn, statusOthers>>

StatusNext == CallParseFireStatus

SpecStatus == StatusInit /\ [][StatusNext]_vars

-----------------------------------------------------------------------------
(* C6 *)

TwoLetterCodes == {S_OC, S_BH, S_UC}
TablePhrases == {S_OUT_OF_CONTROL, S_BEING_HELD, S_UNDER_CONTROL, S_OUT, S_EXTINGUISHED}
TableKeys == TwoLetterCodes \cup TablePhrases

\* C6 as stated: "OC" and "OUT OF CONTROL" in any letter case give OUT_OF_CONTROL;
\* a string that neither equals a two-letter code nor contains a status phrase
\* gives UNKNOWN; the call always returns a status.
C6_AsStated ==
    sOut /= "pending" =>
        /\ sOut \in FireStatuses
        /\ (Upper(sIn) \in {S_OC, S_OUT_OF_CONTROL} => sOut = "OUT_OF_CONTROL")
        /\ ( (/\ Upper(sIn) \notin TwoLetterCodes
              /\ \A p \in TablePhrases : ~Contains(Upper(sIn), p))
             => sOut = "UNKNOWN" )

\* C6 amended: "OC" and "OUT OF CONTROL" in any letter case give OUT_OF_CONTROL;
\* a string that contains none of the table's eight keys (the two-letter codes
\* included) gives UNKNOWN, and only such a string does; the call always returns
\* a status.
C6_StatusNormalization ==
    sOut /= "pending" =>
        /\ sOut \in FireStatuses
        /\ (Upper(sIn) \in {S_OC, S_OUT_OF_CONTROL} => sOut = "OUT_OF_CONTROL")
        /\ ( (\A k \in TableKeys : ~Contains(Upper(sIn), k)) <=> sOut = "UNKNOWN" )

\* a lower-case "oc" was normalized, and so was a string with no key in it
C6_Witness ==
    /\ sIn = <<"o","c">>
    /\ sOut = "OUT_OF_CONTROL"

-----------------------------------------------------------------------------
(* Sample inputs: strings, rows, features, placemarks *)

S_F1 == <<"F","1">>
S_F2 == <<"F","2">>
S_F3 == <<"F","3">>
S_10_5 == <<"1","0",".","5">>
S_ABC == <<"a","b","c">>
S_QC == <<"Q","C">>
S_DATE_SPACE == <<"2","0","2","4","-","0","7","-","0","1"," ","1","2",":","3","0",":","0","0">>
S_DATE_T == <<"2","0","2","4","-","0","7","-","0","2","T","0","8",":","0","0",":","0","0">>
S_DATE_SLASH == <<"2","0","2","4","/","0","7","/","0","3">>
S_DATE_UNKNOWN == <<"0","7","/","0","1","/","2","0","2","4">>

\* a csv row under the CWFIS header
\*   agency, firename, lat, lon, startdate, hectares, stage_of_control
CsvRowOf(lat, lon, agency, firename, hectares, stage, startdate) ==
    [cells |-> [lat |-> lat, lon |-> lon, agency |-> agency, firename |-> firename,
                hectares |-> hectares, stage_of_control |-> stage,
                startdate |-> startdate],
     extra |-> FALSE]

\* a GeoJSON point feature
JsonFeatureOf(lat, lon, props) ==
    [pk |-> "dict", props |-> props, gk |-> "dict", coords |-> <<lon, lat>>]

\* the text of a KML <coordinates> element: lon,lat,altitude
CoordsText(lat, lon) == ToStr(Num(lon)) \o <<",">> \o ToStr(Num(lat)) \o <<",", "0">>

\* a KML placemark with a Point and ExtendedData
KmlPlacemarkOf(lat, lon, data) ==
    [point |-> TRUE, coordsElem |-> TRUE, text |-> CoordsText(lat, lon),
     hasExt |-> TRUE, data |-> data]

\* a property bag as a JSON or KML source spells it
PropsOf(agency, fire_id, hectares, status, start_date) ==
    [agency |-> agency, fire_id |-> fire_id, hectares |-> hectares,
     status |-> status, start_date |-> start_date]

CoordStr(n) == Str(ToStr(Num(n)))

-----------------------------------------------------------------------------
(* fetch_active_fires under its retry decorator *)

MaxRecords == 2
MaxClock == 1

CsvRowGood ==
    CsvRowOf(CoordStr(475), CoordStr(-530), Str(S_NL), Str(S_F1), Str(S_10_5),
             Str(S_OC), Str(S_DATE_SPACE))
CsvRowOutside ==
    CsvRowOf(CoordStr(450), CoordStr(-530), Str(S_NL), Str(S_F2), Str(S_10_5),
             Str(S_OC), Str(S_DATE_SPACE))
CsvRowExtraField == [CsvRowGood EXCEPT !.extra = TRUE]
\* a row with an empty firename: its fire gets the generated identifier
CsvRowNoName == [CsvRowGood EXCEPT !.cells.firename = Str(<<>>)]

PropsGood == PropsOf(Str(S_NL), Str(S_F1), Str(S_10_5), Str(S_OC), Str(S_DATE_SPACE))

JsonFeatureGood == JsonFeatureOf(Num(475), Num(-530), PropsGood)
JsonFeatureOutside == JsonFeatureOf(Num(450), Num(-530), PropsGood)
JsonFeatureNullGeometry == [JsonFeatureGood EXCEPT !.gk = "null"]

KmlPlacemarkGood == KmlPlacemarkOf(475, -530, PropsGood)
KmlPlacemarkOutside == KmlPlacemarkOf(450, -530, PropsGood)
KmlPlacemarkNoCoordinates == [KmlPlacemarkGood EXCEPT !.coordsElem = FALSE]

FetchCsvRows == {CsvRowGood, CsvRowOutside, CsvRowExtraField, CsvRowNoName}
FetchJsonFeatures == {JsonFeatureGood, JsonFeatureOutside, JsonFeatureNullGeometry}
FetchKmlPlacemarks == {KmlPlacemarkGood, KmlPlacemarkOutside, KmlPlacemarkNoCoordinates}

EmptyBody == [shape |-> "empty", recs |-> <<>>]

\* the bodies a 200 response of each endpoint can carry
Bodies(fmt) ==
    CASE fmt = "csv" ->
            {EmptyBody} \cup
            {[shape |-> "text", recs |-> r] : r \in SeqsUpTo(FetchCsvRows, MaxRecords)}
      [] fmt = "json" ->
            {EmptyBody, [shape |-> "invalid", recs |-> <<>>],
             [shape |-> "array", recs |-> <<>>]} \cup
            {[shape |-> "object", recs |-> r] :
                r \in SeqsUpTo(FetchJsonFeatures, MaxRecords)}
      [] fmt = "kml" ->
            {EmptyBody} \cup
            {[shape |-> "text", recs |-> r] :
                r \in SeqsUpTo(FetchKmlPlacemarks, MaxRecords)}

Formats == {"csv", "json", "kml"}

FetchInit ==
    /\ pc = "idle"
    /\ attempt = 0
    /\ log = <<>>
    /\ result = <<>>
    /\ wallclock \in 0..MaxClock
    /\ ParseParked /\ NormParked /\ SanitizeParked /\ StatusParked /\ ImpactParked
    /\ CycleParked

\* a caller calls fetch_active_fires: the decorator starts the first attempt
Call ==
    /\ pc = "idle"
    /\ pc' = "csv"
    /\ attempt' = 1
    /\ UNCHANGED <<log, result, wallclock, fetchOthers>>

\* One request of fetch_active_fires and what follows it up to the next
\* request or the return: the _fetch_* method, `if response:`, the parser,
\* and the decorator's decision when the body of the method ends.
Request(fmt) ==
    /\ pc = fmt
    /\ \E http \in HttpOutcomes :
       \E body \in (IF http = "ok" THEN Bodies(fmt) ELSE {NoBody}) :
         LET r == FetchFires(fmt, http, body)
             usable == ~r.raised /\ ResponseTruthy(r)
             parsed == IF usable THEN ParseFires(fmt, r.body, wallclock + 1)
                       ELSE [fires |-> <<>>, failed |-> FALSE]
             entry == [fmt |-> fmt, http |-> http, shape |-> body.shape,
                       att |-> attempt, usable |-> usable, parsed |-> usable,
                       failed |-> parsed.failed, fires |-> parsed.fires]
             decision == RetryDecision(r.raised, attempt)
         IN  /\ log' = Append(log, entry)
             /\ wallclock' = wallclock + 1
             /\ IF decision = "retry"
                THEN pc' = "csv" /\ attempt' = attempt + 1 /\ result' = result
                ELSE IF decision = "raise"
                THEN pc' = "raised" /\ UNCHANGED <<attempt, result>>
                ELSE IF usable
                THEN pc' = "done" /\ result' = parsed.fires /\ UNCHANGED attempt
                ELSE /\ pc' = AfterFailure(fmt)
                     /\ result' = IF AfterFailure(fmt) = "done" THEN <<>> ELSE result
                     /\ UNCHANGED attempt
    /\ UNCHANGED fetchOthers

RequestCsv == Request("csv")
RequestJson == Request("json")
RequestKml == Request("kml")

Next == Call \/ RequestCsv \/ RequestJson \/ RequestKml

Spec == FetchInit /\ [][Next]_vars

-----------------------------------------------------------------------------
(* C1 .. C4: the requests of one fetch_active_fires call *)

FormatOrder == <<"csv", "json", "kml">>

\* a request failed: no 200 response, or a body with nothing to parse in it
\* (an empty text, an empty or undecodable JSON document)
RequestFailed(e) == e.http /= "ok" \/ e.shape \in {"empty", "invalid"}

\* C1: the formats are requested in the order csv, json, kml; a format is
\* requested only after every format before it has failed; and the list
\* returned is what the parser of the one format that succeeded returned
\* (no earlier format was parsed, nothing is merged).
C1_FormatOrder ==
    /\ Len(log) <= 3
    /\ \A i \in 1..Len(log) :
          /\ log[i].fmt = FormatOrder[i]
          /\ i < Len(log) => RequestFailed(log[i]) /\ ~log[i].parsed
    /\ pc = "done" =>
          /\ log /= <<>>
          /\ result = IF RequestFailed(log[Len(log)]) THEN <<>>
                      ELSE log[Len(log)].fires

\* csv and json failed, the KML answer was parsed and its fire returned
C1_Witness ==
    /\ pc = "done"
    /\ Len(log) = 3
    /\ log[1].http = "timeout"
    /\ log[2].shape = "invalid"
    /\ log[3].parsed
    /\ Len(result) = 2

\* C2 as stated: a format whose body arrived but failed to parse is followed
\* by a request for the next format; its partial result is not what the call
\* returns.
C2_AsStated ==
    pc = "done" =>
        \A i \in 1..Len(log) :
            (log[i].http = "ok" /\ log[i].failed /\ log[i].fmt /= "kml")
                => i < Len(log)

\* C3: when every request of the call failed at the HTTP level, the call
\* raises nothing, and after the third failure it has returned [].
C3_AllFormatsFail ==
    (log /= <<>> /\ \A i \in 1..Len(log) : log[i].http /= "ok") =>
        /\ pc /= "raised"
        /\ Len(log) >= 3 => (pc = "done" /\ result = <<>> /\ Len(log) = 3)

\* a network error, a 4xx and a timeout: the call returned []
C3_Witness ==
    /\ pc = "done"
    /\ Len(log) = 3
    /\ log[1].http = "network_error"
    /\ log[2].http = "http_4xx"
    /\ log[3].http = "timeout"
    /\ result = <<>>

\* how many requests for the format of log[i] were sent up to log[i]
NthRequest(i) == Cardinality({j \in 1..i : log[j].fmt = log[i].fmt})

\* C4 as stated: a request that failed transiently is sent again unless it
\* was the third one for its format; no format is requested more than three
\* times; a request that failed with a 4xx is not sent again.
C4_AsStated ==
    pc \in {"done", "raised"} =>
        \A i \in 1..Len(log) :
            /\ NthRequest(i) <= MaxAttempts
            /\ (log[i].http \in TransientOutcomes /\ NthRequest(i) < MaxAttempts)
                  => \E j \in (i + 1)..Len(log) : log[j].fmt = log[i].fmt
            /\ log[i].http = "http_4xx"
                  => ~\E j \in (i + 1)..Len(log) : log[j].fmt = log[i].fmt

-----------------------------------------------------------------------------
(* One call of a parser on a payload *)

\* csv rows under the CWFIS header
CsvRowEdgeSW ==
    CsvRowOf(CoordStr(465), CoordStr(-675), Str(S_nl), Str(S_F2), Str(<<>>),
             Str(S_UC), Str(<<>>))
CsvRowEdgeNE ==
    CsvRowOf(CoordStr(605), CoordStr(-525), Str(S_NL), Str(S_F3), Str(S_10_5),
             Str(S_BH), Str(S_DATE_SLASH))
CsvRowAt(lat, lon) ==
    CsvRowOf(CoordStr(lat), CoordStr(lon), Str(S_NL), Str(S_F2), Str(S_10_5),
             Str(S_OC), Str(S_DATE_SPACE))
CsvRowOtherAgency == [CsvRowGood EXCEPT !.cells.agency = Str(S_QC)]
CsvRowBadHectares == [CsvRowGood EXCEPT !.cells.hectares = Str(S_ABC)]
CsvRowUnknownDate == [CsvRowGood EXCEPT !.cells.startdate = Str(S_DATE_UNKNOWN)]
CsvRowNoDate == [CsvRowGood EXCEPT !.cells.startdate = Str(<<>>)]
CsvRowBlankLat == [CsvRowGood EXCEPT !.cells.lat = Str(<<>>)]
\* a row that ends after lon: the cells of the columns to its right
\* (startdate, hectares, stage_of_control) are None
CsvRowShort ==
    [cells |-> [lat |-> CoordStr(475), lon |-> CoordStr(-530), agency |-> Str(S_NL),
                firename |-> Str(S_F3), hectares |-> PyNone,
                stage_of_control |-> PyNone, startdate |-> PyNone],
     extra |-> FALSE]

ParseCsvRows ==
    {CsvRowGood, CsvRowEdgeSW, CsvRowEdgeNE,
     CsvRowAt(464, -530), CsvRowAt(606, -530), CsvRowAt(475, -676), CsvRowAt(475, -524),
     CsvRowOtherAgency, CsvRowBadHectares, CsvRowUnknownDate, CsvRowNoDate,
     CsvRowBlankLat, CsvRowShort, CsvRowExtraField}

\* rows of a csv text whose header has no lat, lon, latitude or longitude
CsvRowNoCoordColumns ==
    [cells |-> [agency |-> Str(S_NL), firename |-> Str(S_F1), hectares |-> Str(S_10_5),
                stage_of_control |-> Str(S_OC), startdate |-> Str(S_DATE_SPACE)],
     extra |-> FALSE]

\* GeoJSON features
PropsEdgeSW == [agency |-> Str(S_nl), fire_id |-> Str(S_F2), status |-> Str(S_UC)]
PropsEdgeNE == PropsOf(Str(S_NL), Str(S_F3), Num(105), Str(S_BH), Str(S_DATE_T))
PropsOther == PropsOf(Str(S_NL), Str(S_F2), Str(S_10_5), Str(S_OC), Str(S_DATE_SPACE))

JsonFeatureEdgeSW == JsonFeatureOf(Num(465), Num(-675), PropsEdgeSW)
JsonFeatureEdgeNE == JsonFeatureOf(Num(605), Num(-525), PropsEdgeNE)
JsonFeatureAt(lat, lon) == JsonFeatureOf(Num(lat), Num(lon), PropsOther)
JsonFeatureOtherAgency == [JsonFeatureGood EXCEPT !.props.agency = Str(S_QC)]
JsonFeatureBadHectares == [JsonFeatureGood EXCEPT !.props.hectares = Str(S_ABC)]
JsonFeatureUnknownDate == [JsonFeatureGood EXCEPT !.props.start_date = Str(S_DATE_UNKNOWN)]
JsonFeatureNullDate == [JsonFeatureGood EXCEPT !.props.start_date = PyNone]
\* "start_date": 1720000000, a number of seconds
JsonFeatureNumericDate == [JsonFeatureGood EXCEPT !.props.start_date = Num(17200)]
JsonFeatureNoGeometry == [JsonFeatureGood EXCEPT !.gk = "absent"]
JsonFeatureStringCoords ==
    [JsonFeatureGood EXCEPT !.coords = <<CoordStr(-530), CoordStr(475)>>]
JsonFeatureNullProperties == [JsonFeatureGood EXCEPT !.pk = "null"]

ParseJsonFeatures ==
    {JsonFeatureGood, JsonFeatureEdgeSW, JsonFeatureEdgeNE,
     JsonFeatureAt(464, -530), JsonFeatureAt(606, -530),
     JsonFeatureAt(475, -676), JsonFeatureAt(475, -524),
     JsonFeatureOtherAgency, JsonFeatureBadHectares, JsonFeatureUnknownDate,
     JsonFeatureNullDate, JsonFeatureNumericDate, JsonFeatureNoGeometry,
     JsonFeatureNullGeometry, JsonFeatureStringCoords, JsonFeatureNullProperties}

\* KML placemarks
KmlPlacemarkEdgeSW ==
    KmlPlacemarkOf(465, -675,
                   PropsOf(Str(S_nl), Str(S_F2), Str(<<>>), Str(S_UC), Str(<<>>)))
KmlPlacemarkEdgeNE == KmlPlacemarkOf(605, -525, PropsEdgeNE)
KmlPlacemarkAt(lat, lon) == KmlPlacemarkOf(lat, lon, PropsOther)
KmlPlacemarkOtherAgency == [KmlPlacemarkGood EXCEPT !.data.agency = Str(S_QC)]
KmlPlacemarkBadHectares == [KmlPlacemarkGood EXCEPT !.data.hectares = Str(S_ABC)]
KmlPlacemarkUnknownDate ==
    [KmlPlacemarkGood EXCEPT !.data.start_date = Str(S_DATE_UNKNOWN)]
KmlPlacemarkNoDate == [KmlPlacemarkGood EXCEPT !.data.start_date = Str(<<>>)]
KmlPlacemarkNoPoint == [KmlPlacemarkGood EXCEPT !.point = FALSE]
KmlPlacemarkOneNumber == [KmlPlacemarkGood EXCEPT !.text = ToStr(Num(475))]
KmlPlacemarkBadNumber ==
    [KmlPlacemarkGood EXCEPT !.text = S_ABC \o <<",">> \o ToStr(Num(475))]
KmlPlacemarkNoExtendedData == [KmlPlacemarkGood EXCEPT !.hasExt = FALSE]

ParseKmlPlacemarks ==
    {KmlPlacemarkGood, KmlPlacemarkEdgeSW, KmlPlacemarkEdgeNE,
     KmlPlacemarkAt(464, -530), KmlPlacemarkAt(606, -530),
     KmlPlacemarkAt(475, -676), KmlPlacemarkAt(475, -524),
     KmlPlacemarkOtherAgency, KmlPlacemarkBadHectares, KmlPlacemarkUnknownDate,
     KmlPlacemarkNoDate, KmlPlacemarkNoPoint, KmlPlacemarkNoCoordinates,
     KmlPlacemarkOneNumber, KmlPlacemarkBadNumber, KmlPlacemarkNoExtendedData}

\* the payloads each parser is called on
ParseBodies(fmt) ==
    CASE fmt = "csv" ->
            {[shape |-> "text", recs |-> r] : r \in SeqsUpTo(ParseCsvRows, MaxRecords)}
            \cup {[shape |-> "text", recs |-> r] :
                     r \in SeqsUpTo({CsvRowNoCoordColumns}, MaxRecords)}
      [] fmt = "json" ->
            {[shape |-> "array", recs |-> <<>>]} \cup
            {[shape |-> "object", recs |-> r] :
                r \in SeqsUpTo(ParseJsonFeatures, MaxRecords)}
      [] fmt = "kml" ->
            {[shape |-> "text", recs |-> r] :
                r \in SeqsUpTo(ParseKmlPlacemarks, MaxRecords)}

NotCalled == [done |-> FALSE, fires |-> <<>>, failed |-> FALSE]

ParseInit ==
    /\ pFmt \in Formats
    /\ pBody \in ParseBodies(pFmt)
    /\ pNow \in 0..MaxClock
    /\ pOut = NotCalled
    /\ FetchParked /\ NormParked /\ SanitizeParked /\ StatusParked /\ ImpactParked
    /\ CycleParked

CallParser(fmt) ==
    /\ pFmt = fmt
    /\ ~pOut.done
    /\ LET out == ParseFires(fmt, pBody, pNow)
       IN  pOut' = [done |-> TRUE, fires |-> out.fires, failed |-> out.failed]
    /\ UNCHANGED <<pFmt, pBody, pNow, parseOthers>>

CallParseCsvFires == CallParser("csv")
CallParseJsonFires == CallParser("json")
CallParseKmlFires == CallParser("kml")

ParseNext == CallParseCsvFires \/ CallParseJsonFires \/ CallParseKmlFires

SpecParse == ParseInit /\ [][ParseNext]_vars

-----------------------------------------------------------------------------
(* C5, C7, C8, C9: what a parser makes of the records of a payload *)

\* The coordinates a source record states, read from the record itself:
\* has is FALSE when the record has no pair of numbers for them.
RecordCoords(fmt, rec) ==
    CASE fmt = "csv" ->
            LET lat == IF "lat" \in DOMAIN rec.cells THEN Float(rec.cells.lat)
                       ELSE FloatRaise("missing")
                lon == IF "lon" \in DOMAIN rec.cells THEN Float(rec.cells.lon)
                       ELSE FloatRaise("missing")
            IN  [has |-> lat.exc = "" /\ lon.exc = "" /\ ~lat.nan /\ ~lon.nan,
                 lat |-> lat.n, lon |-> lon.n]
      [] fmt = "json" ->
            IF rec.gk = "dict" /\ Len(rec.coords) >= 2
               /\ rec.coords[1].k = "num" /\ rec.coords[2].k = "num"
            THEN [has |-> TRUE, lat |-> rec.coords[2].n, lon |-> rec.coords[1].n]
            ELSE [has |-> FALSE, lat |-> 0, lon |-> 0]
      [] fmt = "kml" ->
            LET parts == Split(Strip(rec.text), ",")
                ok == rec.point /\ rec.coordsElem /\ Len(parts) >= 2
                lon == IF ok THEN FloatOfStr(parts[1]) ELSE FloatRaise("missing")
                lat == IF ok THEN FloatOfStr(parts[2]) ELSE FloatRaise("missing")
            IN  [has |-> lat.exc = "" /\ lon.exc = "" /\ ~lat.nan /\ ~lon.nan,
                 lat |-> lat.n, lon |-> lon.n]

\* the box 46.5..60.5 N, -67.5..-52.5 E, edges included
InsideBox(lat, lon) == lat >= 465 /\ lat <= 605 /\ lon >= -675 /\ lon <= -525

\* C5: every Fire a parser returns lies inside the box, and a parser returns
\* no more Fires than the payload has records with coordinates inside it.
C5_BoundingBox ==
    pOut.done =>
        /\ \A i \in 1..Len(pOut.fires) :
              InsideBox(pOut.fires[i].latitude, pOut.fires[i].longitude)
        /\ Len(pOut.fires) <=
              Cardinality({j \in 1..Len(pBody.recs) :
                  LET c == RecordCoords(pFmt, pBody.recs[j])
                  IN  c.has /\ InsideBox(c.lat, c.lon)})

\* a record on the south-west corner was kept, one just south of the box dropped
C5_Witness ==
    /\ pOut.done
    /\ pFmt = "kml"
    /\ pBody.recs = <<KmlPlacemarkEdgeSW, KmlPlacemarkAt(464, -530)>>
    /\ Len(pOut.fires) = 1
    /\ pOut.fires[1].latitude = 465
    /\ pOut.fires[1].longitude = -675

\* C7, for the three parsers alone: the coordinates of every Fire returned
\* are the ones some record of the payload states.
C7_ParsersKeepCoordinates ==
    pOut.done =>
        \A i \in 1..Len(pOut.fires) :
            \E j \in 1..Len(pBody.recs) :
                LET c == RecordCoords(pFmt, pBody.recs[j])
                IN  /\ c.has
                    /\ pOut.fires[i].latitude = c.lat
                    /\ pOut.fires[i].longitude = c.lon

\* records that differ from the good record of their format in the date only
BadDateRecords(fmt) ==
    CASE fmt = "csv"  -> {CsvRowUnknownDate, CsvRowNoDate}
      [] fmt = "json" -> {JsonFeatureUnknownDate, JsonFeatureNullDate,
                          JsonFeatureNumericDate}
      [] fmt = "kml"  -> {KmlPlacemarkUnknownDate, KmlPlacemarkNoDate}

\* C8 as stated: a record that is valid but for its date (missing, or
\* matching no known format) becomes a Fire whose start date is the current
\* time.
C8_AsStated ==
    (pOut.done /\ Len(pBody.recs) = 1 /\ pBody.recs[1] \in BadDateRecords(pFmt)) =>
        /\ Len(pOut.fires) = 1
        /\ pOut.fires[1].fire_id = S_F1
        /\ pOut.fires[1].start_date = Now(pNow)

GoodRecord(fmt) ==
    CASE fmt = "csv"  -> CsvRowGood
      [] fmt = "json" -> JsonFeatureGood
      [] fmt = "kml"  -> KmlPlacemarkGood

\* the Fire the good record stands for
GoodFire(now_) ==
    [fire_id       |-> S_F1,
     latitude      |-> 475,
     longitude     |-> -530,
     size_hectares |-> [nan |-> FALSE, n |-> 105],
     status        |-> "OUT_OF_CONTROL",
     start_date    |-> [y |-> 2024, mo |-> 7, d |-> 1, h |-> 12, mi |-> 30, sec |-> 0],
     last_updated  |-> Now(now_),
     agency        |-> Str(S_NL),
     fire_name     |-> PyNone,
     cause         |-> PyNone]

\* C9 as stated: the good record is returned as its Fire wherever it stands
\* in the payload, whatever the records before it are.
C9_AsStated ==
    pOut.done =>
        \A j \in 1..Len(pBody.recs) :
            pBody.recs[j] = GoodRecord(pFmt)
                => \E i \in 1..Len(pOut.fires) : pOut.fires[i] = GoodFire(pNow)

-----------------------------------------------------------------------------
(* One logical record delivered in each wire format *)

\* dict with one more key
Put(d, key, v) == [x \in DOMAIN d \cup {key} |-> IF x = key THEN v ELSE d[x]]

\* the bag of the fields that are present, from the options chosen
BagOf(pairs) ==
    [k \in {p[1] : p \in pairs} |-> (CHOOSE p \in pairs : p[1] = k)[2]]

\* A logical record: a bag of named string values, and coordinates. Each
\* field is absent or present under one of the names upstream sources use.
LogicalRecords ==
    {[props |-> BagOf({<<"agency", ag>>} \cup id \cup st \cup sz \cup sd \cup lu),
      lat |-> c[1], lon |-> c[2], now |-> n] :
        ag \in {Str(S_NL), Str(S_QC)},
        id \in {{}, {<<"fire_id", Str(S_F1)>>}, {<<"firename", Str(S_F1)>>}},
        st \in {{}, {<<"status", Str(S_OC)>>}, {<<"stage_of_control", Str(S_OC)>>}},
        sz \in {{}, {<<"hectares", Str(S_10_5)>>}, {<<"hectares", Str(S_ABC)>>}},
        sd \in {{}, {<<"start_date", Str(S_DATE_SPACE)>>},
                    {<<"startdate", Str(S_DATE_SPACE)>>}},
        lu \in {{}, {<<"last_updated", Str(S_DATE_T)>>}},
        c \in {<<475, -530>>, <<450, -530>>},
        n \in 0..MaxClock}

\* the record as a row of a csv text whose header names its fields, lat and lon
AsCsvRow(rec) ==
    [cells |-> Put(Put(rec.props, "lat", CoordStr(rec.lat)), "lon", CoordStr(rec.lon)),
     extra |-> FALSE]

\* the record as a GeoJSON feature
AsJsonFeature(rec) == JsonFeatureOf(Num(rec.lat), Num(rec.lon), rec.props)

\* the record as a KML placemark
AsKmlPlacemark(rec) == KmlPlacemarkOf(rec.lat, rec.lon, rec.props)

NormInit ==
    /\ nRec \in LogicalRecords
    /\ nOut = [f \in Formats |-> NotCalled]
    /\ FetchParked /\ ParseParked /\ SanitizeParked /\ StatusParked /\ ImpactParked
    /\ CycleParked

Deliver(fmt, body) ==
    /\ ~nOut[fmt].done
    /\ LET out == ParseFires(fmt, body, nRec.now)
       IN  nOut' = [nOut EXCEPT ![fmt] =
                        [done |-> TRUE, fires |-> out.fires, failed |-> out.failed]]
    /\ UNCHANGED <<nRec, normOthers>>

DeliverCsv == Deliver("csv", [shape |-> "text", recs |-> <<AsCsvRow(nRec)>>])
DeliverJson == Deliver("json", [shape |-> "object", recs |-> <<AsJsonFeature(nRec)>>])
DeliverKml == Deliver("kml", [shape |-> "text", recs |-> <<AsKmlPlacemark(nRec)>>])

NormNext == DeliverCsv \/ DeliverJson \/ DeliverKml

SpecNorm == NormInit /\ [][NormNext]_vars

\* what the claim compares of a parser's result
ComparedFields(fires) ==
    [i \in 1..Len(fires) |->
        [fire_id |-> fires[i].fire_id, size_hectares |-> fires[i].size_hectares,
         status |-> fires[i].status, start_date |-> fires[i].start_date,
         last_updated |-> fires[i].last_updated, agency |-> fires[i].agency]]

\* C10 as stated: the three parsers make the same Fire (identifier, size,
\* status, dates, agency) of the same logical record, or all reject it.
C10_AsStated ==
    (\A f \in Formats : nOut[f].done) =>
        /\ ComparedFields(nOut["csv"].fires) = ComparedFields(nOut["json"].fires)
        /\ ComparedFields(nOut["json"].fires) = ComparedFields(nOut["kml"].fires)

\* C10, the part that holds: the JSON parser and the KML parser, which hand
\* the source's own field names to the normalizer, agree on every record.
C10_JsonKmlAgree ==
    (nOut["json"].done /\ nOut["kml"].done) =>
        ComparedFields(nOut["json"].fires) = ComparedFields(nOut["kml"].fires)

-----------------------------------------------------------------------------
(* utils/validation.py: validate_coordinates, sanitize_fire_data *)

\* validate_coordinates: is_valid
ValidateCoordinates(lat, lon) ==
    LET la == Float(lat)
        lo == Float(lon)
    IN  IF la.exc /= "" \/ lo.exc /= "" THEN FALSE      \* ValueError, TypeError
        ELSE IF la.nan \/ ~(-900 <= la.n /\ la.n <= 900) THEN FALSE
        ELSE IF lo.nan \/ ~(-1800 <= lo.n /\ lo.n <= 1800) THEN FALSE
        ELSE TRUE

S_INVALID_COORDINATES ==
    <<"i","n","v","a","l","i","d","_","c","o","o","r","d","i","n","a","t","e","s">>

ValidStatuses == {S_OC, S_UC, S_BH, S_OUT}

\* the default "St. John's area" coordinates, 47.5 and -52.7
DefaultLatitude == 475
DefaultLongitude == -527

\* sanitize_fire_data, "Validate coordinates": the defaults replace
\* coordinates that are not valid
SanitizeCoordinates(fire_data) ==
    IF ValidateCoordinates(Get(fire_data, "latitude", Num(0)),
                           Get(fire_data, "longitude", Num(0)))
    THEN fire_data
    ELSE Put(Put(Put(fire_data, "latitude", Num(DefaultLatitude)),
                 "longitude", Num(DefaultLongitude)),
             "data_quality", Str(S_INVALID_COORDINATES))

\* max(0, x)
Max0(x) == IF x.nan \/ x.n <= 0 THEN 0 ELSE x.n

\* sanitize_fire_data, "Ensure size is non-negative": [exc, data]
SanitizeSize(fire_data) ==
    IF "size_hectares" \in DOMAIN fire_data
    THEN LET size == Float(fire_data["size_hectares"])
         IN  IF size.exc /= "" THEN [exc |-> size.exc, data |-> fire_data]
             ELSE [exc |-> "",
                   data |-> Put(fire_data, "size_hectares", Num(Max0(size)))]
    ELSE [exc |-> "", data |-> fire_data]

\* sanitize_fire_data, "Validate status"
SanitizeStatus(fire_data) ==
    IF "status" \in DOMAIN fire_data /\ fire_data["status"].k = "str"
       /\ fire_data["status"].s \in ValidStatuses
    THEN fire_data
    ELSE Put(fire_data, "status", Str(S_UC))

\* sanitize_fire_data: [exc, data], the exception that leaves it ("" if
\* none) and the dictionary it returns
SanitizeFireData(fire_data) ==
    LET sized == SanitizeSize(SanitizeCoordinates(fire_data))
    IN  IF sized.exc /= "" THEN sized
        ELSE [exc |-> "", data |-> SanitizeStatus(sized.data)]

\* the fire dictionaries sanitize_fire_data is called on
FireDicts ==
    {BagOf({<<"fire_id", Str(S_F1)>>} \cup la \cup lo \cup st \cup sz) :
        la \in {{}} \cup {{<<"latitude", v>>} :
                    v \in {PyNone, Num(475), Num(0), Num(950), Num(-901),
                           CoordStr(475), Str(S_ABC)}},
        lo \in {{}} \cup {{<<"longitude", v>>} :
                    v \in {PyNone, Num(-530), Num(-1801), Num(1800)}},
        st \in {{}} \cup {{<<"status", v>>} : v \in {Str(S_OC), Str(S_UNK)}},
        sz \in {{}} \cup {{<<"size_hectares", v>>} :
                    v \in {Num(105), Num(-50), Str(S_ABC)}}}

SanitizeInit ==
    /\ fdIn \in FireDicts
    /\ fdOut = [done |-> FALSE, exc |-> "", data |-> fdIn]
    /\ FetchParked /\ ParseParked /\ NormParked /\ StatusParked /\ ImpactParked
    /\ CycleParked

CallSanitizeFireData ==
    /\ ~fdOut.done
    /\ LET out == SanitizeFireData(fdIn)
       IN  fdOut' = [done |-> TRUE, exc |-> out.exc, data |-> out.data]
    /\ UNCHANGED <<fdIn, sanitizeOthers>>

SanitizeNext == CallSanitizeFireData

SpecSanitize == SanitizeInit /\ [][SanitizeNext]_vars

\* C7 as stated: no fire is given a defaulted or substituted coordinate: the
\* coordinates of the fire that comes back are the ones its source record
\* has, and a record without them gets none.
C7_AsStated ==
    fdOut.done =>
        \A k \in {"latitude", "longitude"} :
            k \in DOMAIN fdOut.data =>
                (k \in DOMAIN fdIn /\ fdOut.data[k] = fdIn[k])

-----------------------------------------------------------------------------
(* functions/data_ingestion/main.py: _get_unique_locations *)

\* A location is <<lat, lon>> in tenths of a degree; threshold_km is in km.

\* the square of `distance`, in squared tenths of a degree
DistanceSquared(location, existing) ==
    (location[1] - existing[1]) * (location[1] - existing[1])
    + (location[2] - existing[2]) * (location[2] - existing[2])

\* distance_km < threshold_km, with distance_km = distance * 111: both sides
\* are squared, which keeps the comparison exact
DistanceKmBelow(location, existing, threshold_km) ==
    /\ threshold_km > 0
    /\ DistanceSquared(location, existing) * 111 * 111
           < 100 * threshold_km * threshold_km

\* one pass of the outer loop, with the insertion at the front of the list
KeepLocationAtFront(unique_locations, location, threshold_km) ==
    IF \E i \in 1..Len(unique_locations) :
           DistanceKmBelow(location, unique_locations[i], threshold_km)
    THEN unique_locations
    ELSE <<location>> \o unique_locations

\* one pass of the outer loop: is_unique, then the append
KeepLocation(unique_locations, location, threshold_km) ==
    IF \E i \in 1..Len(unique_locations) :
           DistanceKmBelow(location, unique_locations[i], threshold_km)
    THEN unique_locations
    ELSE Append(unique_locations, location)

RECURSIVE UniqueLocationsFrom(_, _, _, _)
UniqueLocationsFrom(unique_locations, locations, i, threshold_km) ==
    IF i > Len(locations) THEN unique_locations
    ELSE UniqueLocationsFrom(KeepLocation(unique_locations, locations[i], threshold_km),
                             locations, i + 1, threshold_km)

\* _get_unique_locations
GetUniqueLocations(locations, threshold_km) ==
    UniqueLocationsFrom(<<>>, locations, 1, threshold_km)

MaxLocations == 3

\* fire locations: 11.1 km, 55.5 km and exactly 111 km north of the first, and
\* one far away
SampleLocations ==
    {<<470, -530>>, <<471, -530>>, <<475, -530>>, <<480, -530>>, <<500, -560>>}

\* threshold_km: the default 10, and others
Thresholds == {0, 10, 12, 111}

DedupInit ==
    /\ dLocs \in SeqsUpTo(SampleLocations, MaxLocations)
    /\ dThreshold \in Thresholds
    /\ dOut = [calls |-> 0, first |-> <<>>, second |-> <<>>]
    /\ IngestParked /\ AqhiParked /\ PredictParked /\ ConvertParked
    /\ CycleParked

CallGetUniqueLocations ==
    /\ dOut.calls = 0
    /\ dOut' = [dOut EXCEPT !.calls = 1,
                            !.first = GetUniqueLocations(dLocs, dThreshold)]
    /\ UNCHANGED <<dLocs, dThreshold, dedupOthers>>

\* the function applied to what it returned
CallGetUniqueLocationsAgain ==
    /\ dOut.calls = 1
    /\ dOut' = [dOut EXCEPT !.calls = 2,
                            !.second = GetUniqueLocations(dOut.first, dThreshold)]
    /\ UNCHANGED <<dLocs, dThreshold, dedupOthers>>

DedupNext == CallGetUniqueLocations \/ CallGetUniqueLocationsAgain

SpecDedup == DedupInit /\ [][DedupNext]_vars

\* the distance of two locations exceeds the threshold
DistanceKmExceeds(a, b, threshold_km) ==
    \/ threshold_km < 0
    \/ DistanceSquared(a, b) * 111 * 111 > 100 * threshold_km * threshold_km

\* the candidates the claim accepts, in input order
RECURSIVE AcceptedWhenExceeding(_, _, _, _)
AcceptedWhenExceeding(accepted, locations, i, threshold_km) ==
    IF i > Len(locations) THEN accepted
    ELSE AcceptedWhenExceeding(
             IF \A j \in 1..Len(accepted) :
                    DistanceKmExceeds(locations[i], accepted[j], threshold_km)
             THEN Append(accepted, locations[i]) ELSE accepted,
             locations, i + 1, threshold_km)

\* C11 as stated: a candidate is accepted only if its approximate distance to
\* every accepted location exceeds threshold_km, else discarded; the output
\* keeps first-seen order.
C11_AsStated ==
    dOut.calls >= 1 =>
        dOut.first = AcceptedWhenExceeding(<<>>, dLocs, 1, dThreshold)

-----------------------------------------------------------------------------
(* functions/data_ingestion/aqhi_fetcher.py: the AQHI baseline *)

S_AIR_QUALITY ==
    <<"A","i","r"," ","Q","u","a","l","i","t","y">>

S_CURRENT_AQHI ==
    <<"C","u","r","r","e","n","t"," ","A","Q","H","I",":">>

S_STAR ==
    <<"*">>

S_AQHI ==
    <<"A","Q","H","I">>

S_CURRENT ==
    <<"C","u","r","r","e","n","t">>

S_AIR_QUALITY_HEALTH_INDEX ==
    <<"A","i","r"," ","Q","u","a","l","i","t","y"," ","H","e","a","l","t",
      "h"," ","I","n","d","e","x">>

S_SMOKE ==
    <<"s","m","o","k","e">>

S_STAR10 ==
    <<"*","1","0">>

S_HIGH_RISK_IN_SMOKE ==
    <<"H","i","g","h"," ","r","i","s","k"," ","i","n"," ","s","m","o","k",
      "e"," ","c","o","n","d","i","t","i","o","n","s">>

S_NO_REAL_TIME_DATA ==
    <<"N","o"," ","r","e","a","l","-","t","i","m","e"," ","d","a","t","a",
      " ","a","v","a","i","l","a","b","l","e">>

\* the first place where key stands in s, 0 if nowhere
IndexOf(s, key) ==
    IF Contains(s, key)
    THEN CHOOSE i \in 1..(Len(s) - Len(key) + 1) :
             /\ SubSeq(s, i, i + Len(key) - 1) = key
             /\ \A j \in 1..(i - 1) : SubSeq(s, j, j + Len(key) - 1) /= key
    ELSE 0

\* s.split(sep)[1] when sep is in s: what stands between the first sep and the
\* second
SplitSecond(s, sep) ==
    LET rest == SubSeq(s, IndexOf(s, sep) + Len(sep), Len(s))
    IN  IF Contains(rest, sep) THEN SubSeq(rest, 1, IndexOf(rest, sep) - 1) ELSE rest

\* s.split()[0] of a stripped, non-empty s: the characters before the first blank
FirstWord(s) ==
    IF Contains(s, <<" ">>) THEN SubSeq(s, 1, IndexOf(s, <<" ">>) - 1) ELSE s

\* int(s): an optional sign, then digits with single underscores between them
IntOfStr(s) ==
    LET signed == s /= <<>> /\ s[1] \in {"+", "-"}
        digits == IF signed THEN Tail(s) ELSE s
        wellFormed ==
            /\ digits /= <<>>
            /\ \A i \in 1..Len(digits) : IsDigit(digits[i]) \/ digits[i] = "_"
            /\ IsDigit(digits[1]) /\ IsDigit(digits[Len(digits)])
            /\ \A i \in 1..(Len(digits) - 1) : ~(digits[i] = "_" /\ digits[i + 1] = "_")
        n == DigitsVal(SelectSeq(digits, IsDigit))
    IN  IF ~wellFormed THEN [exc |-> "ValueError", n |-> 0]
        ELSE [exc |-> "", n |-> IF signed /\ s[1] = "-" THEN -n ELSE n]

\* what a fetch hands back: None, or the dictionary of a reading (its
\* timestamp, the wall clock's text, is left out)
NoData == [k |-> "none", city |-> "", aqhi_value |-> 0, special_note |-> PyNone, source |-> ""]
Reading(city, aqhi_value, special_note, source) ==
    [k |-> "dict", city |-> city, aqhi_value |-> aqhi_value,
     special_note |-> special_note, source |-> source]

\* the outcome of a try body: the exception that left it, or what it returned
Threw(e) == [exc |-> e, data |-> NoData]
Gave(data) == [exc |-> "", data |-> data]

\* An XML element that is absent, or present with text None or a str
NoElement == [k |-> "missing", n |-> 0, s |-> <<>>]

\* fetch_aqhi_from_rss: the loop over the items of the feed, from item i
RECURSIVE RssItems(_, _, _)
RssItems(city, items, i) ==
    IF i > Len(items) THEN Gave(NoData)
    ELSE LET title == items[i].title
             description == items[i].description
             text == description.s
             parts == Strip(SplitSecond(text, S_CURRENT_AQHI))
             aqhi_value == IntOfStr(FirstWord(parts))
             special_note == IF Contains(text, S_STAR)
                             THEN Str(Strip(SplitSecond(text, S_STAR))) ELSE PyNone
         IN  IF title.k = "missing" THEN RssItems(city, items, i + 1)
             ELSE IF title.k = "none" THEN Threw("TypeError")
             ELSE IF ~Contains(title.s, S_AIR_QUALITY) THEN RssItems(city, items, i + 1)
             ELSE IF description.k = "missing" THEN RssItems(city, items, i + 1)
             ELSE IF description.k = "none" THEN Threw("TypeError")
             ELSE IF ~Contains(text, S_CURRENT_AQHI) THEN RssItems(city, items, i + 1)
             ELSE IF parts = <<>> THEN Threw("IndexError")
             ELSE IF aqhi_value.exc /= "" THEN Threw(aqhi_value.exc)
             ELSE Gave(Reading(city, aqhi_value.n, special_note, "Environment Canada RSS"))

\* fetch_aqhi_from_rss: the body of its try
RssBody(city, rss) ==
    IF rss.http = "timeout" THEN Threw("Timeout")
    ELSE IF rss.http /= "200" THEN Threw("HTTPError")
    ELSE IF ~rss.xml THEN Threw("ParseError")
    ELSE RssItems(city, rss.items, 1)

\* fetch_aqhi_from_rss without its except clause
FetchAqhiFromRssNoCatch(city, rss) ==
    IF city /= "St. John's" THEN Gave(NoData) ELSE RssBody(city, rss)

\* fetch_aqhi_from_rss
FetchAqhiFromRss(city, rss) ==
    IF city /= "St. John's" THEN Gave(NoData)
    ELSE IF RssBody(city, rss).exc /= "" THEN Gave(NoData)
    ELSE RssBody(city, rss)

\* re.search(keyword + r'[:\s]+(\d+)', text, re.IGNORECASE): can the pattern
\* match at place i
MatchesAt(keyword, text, i) ==
    /\ i + Len(keyword) - 1 <= Len(text)
    /\ Lower(SubSeq(text, i, i + Len(keyword) - 1)) = Lower(keyword)
    /\ \E j \in (i + Len(keyword) + 1)..Len(text) :
           /\ IsDigit(text[j])
           /\ \A m \in (i + Len(keyword))..(j - 1) : text[m] \in {":", " "}

\* the same search: [found, group], the digits of the leftmost match
RegexSearch(keyword, text) ==
    IF \E i \in 1..Len(text) : MatchesAt(keyword, text, i)
    THEN LET i == CHOOSE a \in 1..Len(text) :
                      /\ MatchesAt(keyword, text, a)
                      /\ \A b \in 1..(a - 1) : ~MatchesAt(keyword, text, b)
             j == CHOOSE a \in (i + Len(keyword) + 1)..Len(text) :
                      /\ IsDigit(text[a])
                      /\ \A m \in (i + Len(keyword))..(a - 1) : text[m] \in {":", " "}
             e == CHOOSE a \in j..Len(text) :
                      /\ \A m \in j..a : IsDigit(text[m])
                      /\ (a = Len(text) \/ ~IsDigit(text[a + 1]))
         IN  [found |-> TRUE, group |-> SubSeq(text, j, e)]
    ELSE [found |-> FALSE, group |-> <<>>]

\* the patterns of fetch_aqhi_from_page, in the order tried
PagePatterns == <<S_AQHI, S_CURRENT, S_AIR_QUALITY_HEALTH_INDEX>>

\* fetch_aqhi_from_page: the body of its try
PageBody(city, page) ==
    LET text == page.text
        hits == SelectSeq(PagePatterns, LAMBDA k : RegexSearch(k, text).found)
        special_note == IF Contains(Lower(text), S_SMOKE) /\ Contains(text, S_STAR10)
                        THEN Str(S_HIGH_RISK_IN_SMOKE) ELSE PyNone
    IN  IF page.http = "timeout" THEN Threw("Timeout")
        ELSE IF page.http /= "200" THEN Threw("HTTPError")
        ELSE IF ~Contains(text, S_AIR_QUALITY_HEALTH_INDEX) THEN Gave(NoData)
        ELSE IF hits = <<>> THEN Gave(NoData)
        ELSE Gave(Reading(city, IntOfStr(RegexSearch(hits[1], text).group).n,
                          special_note, "Environment Canada Web"))

\* fetch_aqhi_from_page
FetchAqhiFromPage(city, page) ==
    IF city /= "St. John's" THEN Gave(NoData)
    ELSE IF PageBody(city, page).exc /= "" THEN Gave(NoData)
    ELSE PageBody(city, page)

\* the default index, "low risk"
DefaultAqhi == 2

\* fetch_all_aqhi: [raised, results]; the page is asked only when the feed
\* gave nothing
FetchAllAqhi(rss, page) ==
    LET city == "St. John's"
        fromRss == FetchAqhiFromRss(city, rss)
        fromPage == FetchAqhiFromPage(city, page)
        default == Reading(city, DefaultAqhi, Str(S_NO_REAL_TIME_DATA), "Default")
    IN  IF fromRss.exc /= "" THEN [raised |-> fromRss.exc, results |-> <<>>]
        ELSE IF fromRss.data.k = "dict"
        THEN [raised |-> "", results |-> <<fromRss.data>>]
        ELSE IF fromPage.exc /= "" THEN [raised |-> fromPage.exc, results |-> <<>>]
        ELSE IF fromPage.data.k = "dict"
        THEN [raised |-> "", results |-> <<fromPage.data>>]
        ELSE [raised |-> "", results |-> <<default>>]

S_TITLE_AQHI ==
    <<"A","i","r"," ","Q","u","a","l","i","t","y"," ","H","e","a","l","t",
      "h"," ","I","n","d","e","x"," ","-"," ","S","t","."," ","J","o","h",
      "n","'","s">>

S_TITLE_OTHER ==
    <<"W","e","a","t","h","e","r"," ","w","a","r","n","i","n","g","s">>

S_DESC_2 ==
    <<"C","u","r","r","e","n","t"," ","A","Q","H","I",":"," ","2"," ","(",
      "L","o","w"," ","R","i","s","k",")">>

S_DESC_0 ==
    <<"C","u","r","r","e","n","t"," ","A","Q","H","I",":"," ","0">>

S_DESC_9 ==
    <<"C","u","r","r","e","n","t"," ","A","Q","H","I",":"," ","9">>

S_DESC_6 ==
    <<"C","u","r","r","e","n","t"," ","A","Q","H","I",":"," ","6"," ","(",
      "M","o","d","e","r","a","t","e"," ","R","i","s","k",")">>

S_DESC_11_SMOKE ==
    <<"C","u","r","r","e","n","t"," ","A","Q","H","I",":"," ","1","1"," ",
      "*"," ","s","m","o","k","e">>

S_DESC_10_PLUS ==
    <<"C","u","r","r","e","n","t"," ","A","Q","H","I",":"," ","1","0","+",
      " ","(","V","e","r","y"," ","H","i","g","h"," ","R","i","s","k",")">>

S_DESC_NO_NUMBER ==
    <<"C","u","r","r","e","n","t"," ","A","Q","H","I",":">>

S_DESC_NO_DATA ==
    <<"N","o","t"," ","a","v","a","i","l","a","b","l","e">>

S_PAGE_3 ==
    <<"A","i","r"," ","Q","u","a","l","i","t","y"," ","H","e","a","l","t",
      "h"," ","I","n","d","e","x",":"," ","3">>

S_PAGE_11_SMOKE ==
    <<"A","i","r"," ","Q","u","a","l","i","t","y"," ","H","e","a","l","t",
      "h"," ","I","n","d","e","x"," ","a","q","h","i",":"," ","1","1"," ",
      "S","m","o","k","e"," ","*","1","0">>

S_PAGE_0 ==
    <<"A","i","r"," ","Q","u","a","l","i","t","y"," ","H","e","a","l","t",
      "h"," ","I","n","d","e","x"," ","C","u","r","r","e","n","t"," ","0">>

S_PAGE_NO_NUMBER ==
    <<"A","i","r"," ","Q","u","a","l","i","t","y"," ","H","e","a","l","t",
      "h"," ","I","n","d","e","x"," ","A","Q","H","I"," ","n","/","a">>

S_PAGE_NO_PHRASE ==
    <<"A","Q","H","I",":"," ","4">>

RssItem(title, description) == [title |-> title, description |-> description]
RssFeed(items) == [http |-> "200", xml |-> TRUE, items |-> items]

\* what the feed can answer
RssResponses ==
    {[http |-> "timeout", xml |-> FALSE, items |-> <<>>],
     [http |-> "404", xml |-> FALSE, items |-> <<>>],
     [http |-> "200", xml |-> FALSE, items |-> <<>>],
     RssFeed(<<>>),
     RssFeed(<<RssItem(PyNone, Str(S_DESC_2))>>),
     RssFeed(<<RssItem(Str(S_TITLE_AQHI), NoElement)>>),
     RssFeed(<<RssItem(Str(S_TITLE_AQHI), PyNone)>>),
     RssFeed(<<RssItem(Str(S_TITLE_OTHER), Str(S_DESC_6)),
               RssItem(Str(S_TITLE_AQHI), Str(S_DESC_NO_DATA)),
               RssItem(NoElement, Str(S_DESC_6))>>)}
    \cup {RssFeed(<<RssItem(Str(S_TITLE_OTHER), Str(S_DESC_NO_DATA)),
                    RssItem(Str(S_TITLE_AQHI), Str(d))>>) :
              d \in {S_DESC_2, S_DESC_0, S_DESC_6, S_DESC_9, S_DESC_11_SMOKE,
                     S_DESC_10_PLUS, S_DESC_NO_NUMBER}}

\* what the city page can answer
PageResponses ==
    {[http |-> "timeout", text |-> <<>>], [http |-> "503", text |-> <<>>]}
    \cup {[http |-> "200", text |-> x] :
              x \in {S_PAGE_3, S_PAGE_11_SMOKE, S_PAGE_0, S_PAGE_NO_NUMBER,
                     S_PAGE_NO_PHRASE}}

AqhiNotCalled == [done |-> FALSE, raised |-> "", results |-> <<>>]

AqhiInit ==
    /\ aRss \in RssResponses
    /\ aPage \in PageResponses
    /\ aOut = AqhiNotCalled
    /\ IngestParked /\ DedupParked /\ PredictParked /\ ConvertParked
    /\ CycleParked

CallFetchAllAqhi ==
    /\ ~aOut.done
    /\ LET out == FetchAllAqhi(aRss, aPage)
       IN  aOut' = [done |-> TRUE, raised |-> out.raised, results |-> out.results]
    /\ UNCHANGED <<aRss, aPage, aqhiOthers>>

AqhiNext == CallFetchAllAqhi

SpecAqhi == AqhiInit /\ [][AqhiNext]_vars

\* C20: whatever the feed and the page answer, fetch_all_aqhi raises nothing
\* and returns exactly one St. John's entry: the feed's reading if the feed
\* gives one, else the page's if the page gives one, else the default index 2
\* with source 'Default'.
C20_AlwaysOneBaseline ==
    aOut.done =>
        LET fromRss == FetchAqhiFromRss("St. John's", aRss).data
            fromPage == FetchAqhiFromPage("St. John's", aPage).data
        IN  /\ aOut.raised = ""
            /\ Len(aOut.results) = 1
            /\ aOut.results[1].k = "dict"
            /\ aOut.results[1].city = "St. John's"
            /\ IF fromRss.k = "dict" THEN aOut.results[1] = fromRss
               ELSE IF fromPage.k = "dict" THEN aOut.results[1] = fromPage
               ELSE /\ aOut.results[1].aqhi_value = 2
                    /\ aOut.results[1].source = "Default"

\* both requests fail and the default comes back
C20_Witness ==
    /\ aOut.done
    /\ aRss.http = "timeout"
    /\ aPage.http = "503"
    /\ aOut.raised = ""
    /\ Len(aOut.results) = 1
    /\ aOut.results[1].source = "Default"

-----------------------------------------------------------------------------
(* update_data.py: generate_predictions_with_real_aqhi *)

\* Here a latitude or longitude is an integer count of 0.0001 degree, the
\* precision of the community table; PM2.5 and hectares are in tenths, a
\* confidence in hundredths, a time in hours.

\* the communities, in the order of the dictionary
Communities ==
    <<[name |-> "St. Johns", lat |-> 475615, lon |-> -527126],
      [name |-> "Mount Pearl", lat |-> 475189, lon |-> -528061],
      [name |-> "Conception Bay South", lat |-> 475297, lon |-> -529547],
      [name |-> "Paradise", lat |-> 475361, lon |-> -528579],
      [name |-> "Holyrood", lat |-> 473875, lon |-> -531356],
      [name |-> "Bay Roberts", lat |-> 475989, lon |-> -532644],
      [name |-> "Carbonear", lat |-> 477369, lon |-> -532144],
      [name |-> "Harbour Grace", lat |-> 477050, lon |-> -532144]>>

\* range(12)
HorizonHours == 12

\* the distance inside which an out-of-control fire is listed
RadiusKm == 100

Abs(x) == IF x < 0 THEN -x ELSE x

\* distance_km < km for km up to 111, distance_km being the degree distance
\* times 111: s * 111^2 < km^2 * 10^8 for the squared distance s in units of
\* 0.0001 degree, computed in two halves to stay inside 32 bits. A difference
\* of a whole degree is 111 km or more on its own.
DistanceBelow(dlat, dlon, km) ==
    /\ Abs(dlat) < 10000
    /\ Abs(dlon) < 10000
    /\ LET s == dlat * dlat + dlon * dlon
       IN  (s \div 10000) * 12321 + ((s % 10000) * 12321) \div 10000
               < km * km * 10000

\* one segment of the index to PM2.5 conversion, numbered from the lowest
SegmentPm25(k, aqhi_value) ==
    CASE k = 1 -> 50 + (aqhi_value - 1) * 35
      [] k = 2 -> 120 + (aqhi_value - 3) * 77
      [] k = 3 -> 350 + (aqhi_value - 6) * 100
      [] k = 4 -> 550 + (aqhi_value - 8) * 475
      [] k = 5 -> 1500 + (aqhi_value - 10) * 500

\* the segment the if/elif chain takes for an index
SegmentOf(aqhi_value) ==
    IF aqhi_value <= 3 THEN 1
    ELSE IF aqhi_value <= 6 THEN 2
    ELSE IF aqhi_value <= 8 THEN 3
    ELSE IF aqhi_value <= 10 THEN 4
    ELSE 5

\* "Calculate PM2.5 based on AQHI"
Pm25FromAqhi(aqhi_value) == SegmentPm25(SegmentOf(aqhi_value), aqhi_value)

\* the test that lists a fire, without the status
IsSourceFireAnyStatus(fire, community) ==
    DistanceBelow(fire.latitude - community.lat, fire.longitude - community.lon, RadiusKm)

\* distance_km < 100 and fire.status.value == "OC"
IsSourceFire(fire, community) ==
    /\ DistanceBelow(fire.latitude - community.lat, fire.longitude - community.lon, RadiusKm)
    /\ fire.status = "OUT_OF_CONTROL"

\* what one listed fire asks fire_impact_added to be at least
FireImpact(fire, community) ==
    LET dlat == fire.latitude - community.lat
        dlon == fire.longitude - community.lon
    IN  IF DistanceBelow(dlat, dlon, 30)
           /\ ~fire.size_hectares.nan /\ fire.size_hectares.n > 1000
        THEN 2
        ELSE IF DistanceBelow(dlat, dlon, 50) THEN 1
        ELSE 0

\* source_fires after the loop over the wildfires
SourceFires(wildfires, community) ==
    SelectSeq(wildfires, LAMBDA fire : IsSourceFire(fire, community))

Max(a, b) == IF a >= b THEN a ELSE b
Min(a, b) == IF a <= b THEN a ELSE b

\* fire_impact_added after the loop over the wildfires
RECURSIVE FireImpactAdded(_, _, _)
FireImpactAdded(wildfires, community, i) ==
    IF i > Len(wildfires) THEN 0
    ELSE Max(IF IsSourceFire(wildfires[i], community)
             THEN FireImpact(wildfires[i], community) ELSE 0,
             FireImpactAdded(wildfires, community, i + 1))

\* forecast_time with the hour counted from one
ForecastTimeFromOne(current_time, hour) == current_time + hour + 1

\* forecast_time
ForecastTime(current_time, hour) == current_time + hour

\* the AQHIPrediction made for a community and an hour
PredictionFor(community, hour, stjohns_aqhi, wildfires, current_time) ==
    LET source_fires == SourceFires(wildfires, community)
        fire_impact_added == FireImpactAdded(wildfires, community, 1)
    IN  [timestamp |-> ForecastTime(current_time, hour),
         latitude |-> community.lat,
         longitude |-> community.lon,
         aqhi_value |-> Min(10, stjohns_aqhi + fire_impact_added),
         pm25_concentration |->
             Pm25FromAqhi(stjohns_aqhi) + fire_impact_added * 150,
         source_fire_ids |-> [i \in 1..Len(source_fires) |-> source_fires[i].fire_id],
         confidence |-> IF source_fires /= <<>> THEN 75 ELSE 90]

\* stjohns_aqhi: the default 2, or the value of the first St. John's entry
StJohnsAqhi(real_aqhi_data) ==
    IF \E i \in 1..Len(real_aqhi_data) : real_aqhi_data[i].city = "St. John's"
    THEN real_aqhi_data[CHOOSE i \in 1..Len(real_aqhi_data) :
             /\ real_aqhi_data[i].city = "St. John's"
             /\ \A j \in 1..(i - 1) : real_aqhi_data[j].city /= "St. John's"].aqhi_value
    ELSE 2

\* generate_predictions_with_real_aqhi: [raised, predictions], community by
\* community and hour by hour
GeneratePredictions(rss, page, wildfires, current_time) ==
    LET fetched == FetchAllAqhi(rss, page)
        stjohns_aqhi == StJohnsAqhi(fetched.results)
    IN  IF fetched.raised /= "" THEN [raised |-> fetched.raised, predictions |-> <<>>]
        ELSE [raised |-> "",
              predictions |->
                  [i \in 1..(Len(Communities) * HorizonHours) |->
                      PredictionFor(Communities[((i - 1) \div HorizonHours) + 1],
                                    (i - 1) % HorizonHours,
                                    stjohns_aqhi, wildfires, current_time)]]

MaxFires == 2

Fire(fire_id, latitude, longitude, hectares, status) ==
    [fire_id |-> fire_id, latitude |-> latitude, longitude |-> longitude,
     size_hectares |-> [nan |-> FALSE, n |-> hectares], status |-> status]

\* out of control, 500 ha, 20.0 km north of St. Johns
FireNearLarge == Fire("OC-NEAR-LARGE", 477417, -527126, 5000, "OUT_OF_CONTROL")
\* out of control, 50 ha, 20.8 km west of St. Johns
FireNearSmall == Fire("OC-NEAR-SMALL", 475615, -529000, 500, "OUT_OF_CONTROL")
\* out of control, 70.9 km north of St. Johns
FireInside == Fire("OC-INSIDE", 482000, -527126, 5000, "OUT_OF_CONTROL")
\* out of control, more than 100 km from every community
FireOutside == Fire("OC-OUTSIDE", 485000, -527126, 5000, "OUT_OF_CONTROL")

\* fires of the other statuses where FireNearLarge is
OtherStatusFires ==
    {Fire(s, 477417, -527126, 5000, s) : s \in FireStatuses \ {"OUT_OF_CONTROL"}}

SampleFires ==
    {FireNearLarge, FireNearSmall, FireInside, FireOutside} \cup OtherStatusFires

\* what the feed and the page answer: the feed gives the index 0, 2, 9 or
\* 11, or it fails and the page gives 3 or fails too
PredictSources ==
    {<<RssFeed(<<RssItem(Str(S_TITLE_AQHI), Str(d))>>),
       [http |-> "timeout", text |-> <<>>]>> :
         d \in {S_DESC_0, S_DESC_2, S_DESC_9, S_DESC_11_SMOKE}}
    \cup {<<[http |-> "timeout", xml |-> FALSE, items |-> <<>>], page>> :
              page \in {[http |-> "timeout", text |-> <<>>],
                        [http |-> "200", text |-> S_PAGE_3]}}

PredictNotCalled == [done |-> FALSE, raised |-> "", predictions |-> <<>>]

PredictInit ==
    /\ \E source \in PredictSources : aRss = source[1] /\ aPage = source[2]
    /\ aOut = <<>>
    /\ gFires \in SeqsUpTo(SampleFires, MaxFires)
    /\ gNow \in {0, 5}
    /\ gOut = PredictNotCalled
    /\ IngestParked /\ DedupParked /\ ConvertParked
    /\ CycleParked

CallGeneratePredictions ==
    /\ ~gOut.done
    /\ LET out == GeneratePredictions(aRss, aPage, gFires, gNow)
       IN  gOut' = [done |-> TRUE, raised |-> out.raised,
                    predictions |-> out.predictions]
    /\ UNCHANGED <<aRss, aPage, aOut, gFires, gNow, predictOthers>>

PredictNext == CallGeneratePredictions

SpecPredict == PredictInit /\ [][PredictNext]_vars

\* the baseline the predictor starts from
Baseline == StJohnsAqhi(FetchAllAqhi(aRss, aPage).results)

\* the prediction of the c-th community for an hour
PredAt(c, hour) == gOut.predictions[(c - 1) * 12 + hour + 1]

\* the fires of the list that are out of control and inside the radius of a
\* community
Contributing(community) ==
    SelectSeq(gFires, LAMBDA fire :
        /\ fire.status = "OUT_OF_CONTROL"
        /\ DistanceBelow(fire.latitude - community.lat,
                         fire.longitude - community.lon, RadiusKm))

\* C13: for any fire list, the empty one too, there is exactly one prediction
\* per community and hour, 8 communities by 12 hours, community by community
\* in the table's order and hours ascending; its coordinates are the
\* community's and its timestamp the start time plus the hour.
C13_OnePerCommunityHour ==
    gOut.done =>
        /\ gOut.raised = ""
        /\ Len(Communities) = 8
        /\ Len(gOut.predictions) = 8 * 12
        /\ \A c \in 1..8 : \A hour \in 0..11 :
               /\ PredAt(c, hour).latitude = Communities[c].lat
               /\ PredAt(c, hour).longitude = Communities[c].lon
               /\ PredAt(c, hour).timestamp = gNow + hour

\* the predictor called with no fire at all
C13_Witness ==
    /\ gOut.done
    /\ gFires = <<>>
    /\ Len(gOut.predictions) = 96
    /\ gOut.predictions[96].timestamp = gNow + 11

\* C14: only a fire that is OUT_OF_CONTROL and inside the radius contributes:
\* each prediction is the one made from those fires alone, lists exactly
\* them, and is the plain baseline prediction when there is none.
C14_OnlyOutOfControlInside ==
    LET baseline == Baseline IN
    gOut.done =>
        \A c \in 1..8 : \A hour \in 0..11 :
            LET contributing == Contributing(Communities[c])
            IN  /\ PredAt(c, hour) =
                       PredictionFor(Communities[c], hour, baseline, contributing, gNow)
                /\ PredAt(c, hour).source_fire_ids =
                       [i \in 1..Len(contributing) |-> contributing[i].fire_id]
                /\ contributing = <<>> =>
                       /\ PredAt(c, hour).aqhi_value = Min(10, baseline)
                       /\ PredAt(c, hour).pm25_concentration = Pm25FromAqhi(baseline)
                       /\ PredAt(c, hour).source_fire_ids = <<>>

\* a fire under control 20 km away and an out-of-control fire outside the
\* radius: no prediction lists a fire
C14_Witness ==
    /\ gOut.done
    /\ Len(gFires) = 2
    /\ gFires[1].status = "UNDER_CONTROL"
    /\ gFires[2] = FireOutside
    /\ \A i \in 1..Len(gOut.predictions) :
           /\ gOut.predictions[i].source_fire_ids = <<>>
           /\ gOut.predictions[i].aqhi_value = gOut.predictions[1].aqhi_value

\* C15 as stated, in its scenario: with the baseline index 2 and one
\* OUT_OF_CONTROL fire of 500 ha 20 km from St. Johns, the St. Johns
\* prediction has PM2.5 30.5 and index 6.
C15_AsStated ==
    LET baseline == Baseline IN
    (gOut.done /\ baseline = 2 /\ gFires = <<FireNearLarge>>) =>
        /\ PredAt(1, 0).pm25_concentration = 305
        /\ PredAt(1, 0).aqhi_value = 6

\* C16 as stated: the index has no upper cap: when the baseline and the fire
\* impact put it above 10, the prediction carries the value above 10.
C16_AsStated ==
    LET baseline == Baseline IN
    gOut.done =>
        \A c \in 1..8 : \A hour \in 0..11 :
            baseline + FireImpactAdded(gFires, Communities[c], 1) > 10 =>
                PredAt(c, hour).aqhi_value > 10

\* C17 as stated: every prediction's aqhi_value is at least 1, whatever the
\* baseline (0 included) and the fires.
C17_AsStated ==
    gOut.done =>
        \A i \in 1..Len(gOut.predictions) : gOut.predictions[i].aqhi_value >= 1

\* C18 as stated: a prediction no fire contributes to has no contributor, the
\* confidence 0.9 and the baseline index; one a fire contributes to has the
\* confidence 0.75.
C18_AsStated ==
    LET baseline == Baseline IN
    gOut.done =>
        \A c \in 1..8 : \A hour \in 0..11 :
            IF Contributing(Communities[c]) = <<>>
            THEN /\ PredAt(c, hour).source_fire_ids = <<>>
                 /\ PredAt(c, hour).confidence = 90
                 /\ PredAt(c, hour).aqhi_value = baseline
            ELSE PredAt(c, hour).confidence = 75

-----------------------------------------------------------------------------
(* The index to PM2.5 conversion of the predictor, on its own *)

MaxAqhi == 12

\* the index values where one segment hands over to the next (PM2.5 12, 35,
\* 55 and 150)
SegmentEnds == {3, 6, 8, 10}

ConvertInit ==
    /\ cvIn \in (0..MaxAqhi) \X (0..MaxAqhi)
    /\ cvOut = [done |-> FALSE, pm25 |-> <<0, 0>>, below |-> 0, above |-> 0]
    /\ IngestParked /\ DedupParked /\ AqhiParked /\ PredictParked
    /\ CycleParked

\* the conversion applied to both index values; for the first, also what the
\* segment it falls in and the segment after it give
CallPm25FromAqhi ==
    /\ ~cvOut.done
    /\ cvOut' = [done |-> TRUE,
                 pm25 |-> <<Pm25FromAqhi(cvIn[1]), Pm25FromAqhi(cvIn[2])>>,
                 below |-> SegmentPm25(SegmentOf(cvIn[1]), cvIn[1]),
                 above |-> SegmentPm25(Min(5, SegmentOf(cvIn[1]) + 1), cvIn[1])]
    /\ UNCHANGED <<cvIn, convertOthers>>

ConvertNext == CallPm25FromAqhi

SpecConvert == ConvertInit /\ [][ConvertNext]_vars

\* C19 as stated: the piecewise-linear conversion over the breakpoints 12,
\* 35, 55 and 150 is monotonically non-decreasing, and at each breakpoint the
\* segment below and the segment above give the same value.
C19_AsStated ==
    cvOut.done =>
        /\ cvIn[1] <= cvIn[2] => cvOut.pm25[1] <= cvOut.pm25[2]
        /\ cvIn[1] \in SegmentEnds => cvOut.below = cvOut.above

-----------------------------------------------------------------------------
(* DataIntegrityChecker.validate_data_source and the baseline that seeds the
   predictions.  A dictionary is its set of keys and the values of the two
   keys the check reads; times are minutes, a timestamp is the ISO text of
   one, some other text, or None. *)

PyBool(b) == Num(IF b THEN 10 ELSE 0)

\* datetime.isoformat(): the text of a naive time
Iso(t) == [k |-> "iso", n |-> t, s |-> <<>>]

DataDict(keys, is_official, timestamp) ==
    [keys |-> keys, is_official |-> is_official, timestamp |-> timestamp]

\* datetime.fromisoformat(): a time, or the exception raised
FromIsoformat(v) ==
    CASE v.k = "iso" -> [exc |-> "", t |-> v.n]
      [] v.k = "str" -> [exc |-> "ValueError", t |-> 0]
      [] OTHER       -> [exc |-> "TypeError", t |-> 0]

\* the freshness window: 3 hours
FreshnessMinutes == 180

RequiredFields == {"source", "is_official", "timestamp"}

\* validate_data_source
ValidateDataSource(data, now) ==
    IF ~(RequiredFields \subseteq data.keys) THEN FALSE
    ELSE IF ~Truthy(data.is_official) THEN FALSE
    ELSE LET timestamp == FromIsoformat(data.timestamp)
         IN  IF timestamp.exc /= "" THEN FALSE
             ELSE IF now - timestamp.t > FreshnessMinutes THEN FALSE
             ELSE TRUE

\* the dictionary fetch_all_aqhi returns for a reading taken at `now`
ReadingKeys == {"city", "aqhi_value", "timestamp", "special_note", "source"}

ReadingDict(now) == DataDict(ReadingKeys, PyNone, Iso(now))

S_NOT_A_DATE == <<"n", "/", "a">>

SampleKeys ==
    {RequiredFields \cup {"aqhi_value"}, RequiredFields \ {"source"},
     RequiredFields \ {"is_official"}, RequiredFields \ {"timestamp"}}

SampleTimestamps ==
    {Iso(t) : t \in {0, 59, 60, 61, 119, 120, 121, 240, 300, 360}}
    \cup {Str(S_NOT_A_DATE), PyNone}

\* a key that is absent has no value
SampleDicts ==
    {DataDict(keys, is_official, timestamp) :
        keys \in SampleKeys,
        is_official \in {PyBool(TRUE), PyBool(FALSE), PyNone},
        timestamp \in SampleTimestamps}

BaselineInit ==
    /\ vData \in {d \in SampleDicts :
                    /\ "is_official" \notin d.keys => d.is_official = PyNone
                    /\ "timestamp" \notin d.keys => d.timestamp = PyNone}
    /\ vNow \in {240, 300}
    /\ vOut = [done |-> FALSE, value |-> FALSE]
    /\ \E source \in PredictSources : aRss = source[1] /\ aPage = source[2]
    /\ aOut = <<>>
    /\ gFires \in {<<>>, <<FireNearLarge>>}
    /\ gNow = 5
    /\ gOut = PredictNotCalled
    /\ IngestParked /\ DedupParked /\ ConvertParked /\ RoundTripParked
    /\ WeatherParked /\ RunParked /\ AliasParked /\ FilesParked
    /\ PublishParked

CallValidateDataSource ==
    /\ ~vOut.done
    /\ vOut' = [done |-> TRUE, value |-> ValidateDataSource(vData, vNow)]
    /\ UNCHANGED <<vData, vNow, validateOthers>>

BaselineNext == CallValidateDataSource \/ CallGeneratePredictions

SpecBaseline == BaselineInit /\ [][BaselineNext]_vars

\* a timestamp older than the freshness window
IsStale(data, now) ==
    /\ "timestamp" \in data.keys
    /\ data.timestamp.k = "iso"
    /\ now - data.timestamp.n > 180

IsMarkedOfficial(data) ==
    "is_official" \in data.keys /\ data.is_official = PyBool(TRUE)

\* what fetch_all_aqhi handed generate_predictions_with_real_aqhi, read at
\* the hour gNow
SeedingBaseline == ReadingDict(gNow * 60)

\* C21 as stated: a baseline older than the freshness window of 3 hours, or
\* one that is not marked official, is never presented as current:
\* validate_data_source returns False for it, and every baseline value that
\* seeds the predictions of a cycle has passed that check.
C21_AsStated ==
    /\ vOut.done /\ (IsStale(vData, vNow) \/ ~IsMarkedOfficial(vData)) =>
           vOut.value = FALSE
    /\ gOut.done /\ gOut.raised = "" =>
           ValidateDataSource(SeedingBaseline, gNow * 60)

\* the first half of C21 on its own: the check refuses what is stale or not
\* marked official
C21_CheckRefuses ==
    vOut.done /\ (IsStale(vData, vNow) \/ ~IsMarkedOfficial(vData)) =>
        vOut.value = FALSE

\* the check accepts an official reading that is exactly three hours old
C21_CheckAccepts ==
    /\ vOut.done /\ vOut.value
    /\ vNow - vData.timestamp.n = 180

-----------------------------------------------------------------------------
(* models/fire_models.py: the entities, to_dict and from_dict.  A float is
   a whole number of tenths, an optional field is None or a value, a
   datetime is the record Strptime returns, and a dictionary is a record of
   its keys. *)

\* FireStatus: the value of each member
FireStatusValue ==
    [OUT_OF_CONTROL |-> "OC", BEING_HELD |-> "BH", UNDER_CONTROL |-> "UC",
     OUT |-> "OUT", UNKNOWN |-> "UNK"]

\* FireStatus(value): the member with that value, or ValueError
FireStatusOf(value) ==
    IF \E member \in FireStatuses : FireStatusValue[member] = value
    THEN [exc |-> "",
          member |-> CHOOSE member \in FireStatuses : FireStatusValue[member] = value]
    ELSE [exc |-> "ValueError", member |-> "UNKNOWN"]

\* n written with at least `width` digits
RECURSIVE ZeroPad(_, _)
ZeroPad(s, width) == IF Len(s) >= width THEN s ELSE ZeroPad(<<"0">> \o s, width)

\* datetime.isoformat() of a naive datetime with no microseconds
Isoformat(dt) ==
    ZeroPad(NatStr(dt.y), 4) \o <<"-">> \o ZeroPad(NatStr(dt.mo), 2) \o <<"-">>
        \o ZeroPad(NatStr(dt.d), 2) \o <<"T">> \o ZeroPad(NatStr(dt.h), 2)
        \o <<":">> \o ZeroPad(NatStr(dt.mi), 2) \o <<":">>
        \o ZeroPad(NatStr(dt.sec), 2)

\* datetime.fromisoformat() of such a text: the datetime, or ValueError
DatetimeFromIsoformat(s) ==
    IF StrptimeOk(s, DateFormats[2])
    THEN [exc |-> "", dt |-> Strptime(s, DateFormats[2])]
    ELSE [exc |-> "ValueError", dt |-> NoDate]

NoEntity == [cls |-> "none"]
Built(e) == [exc |-> "", e |-> e]
Failed(exc) == [exc |-> exc, e |-> NoEntity]

WildfireToDict(self) ==
    [fire_id |-> self.fire_id, latitude |-> self.latitude,
     longitude |-> self.longitude, size_hectares |-> self.size_hectares,
     status |-> FireStatusValue[self.status],
     start_date |-> Isoformat(self.start_date),
     last_updated |-> Isoformat(self.last_updated),
     agency |-> self.agency, fire_name |-> self.fire_name, cause |-> self.cause]

WildfireFromDict(data) ==
    LET status == FireStatusOf(data.status)
        start_date == DatetimeFromIsoformat(data.start_date)
        last_updated == DatetimeFromIsoformat(data.last_updated)
    IN  IF status.exc /= "" THEN Failed(status.exc)
        ELSE IF start_date.exc /= "" THEN Failed(start_date.exc)
        ELSE IF last_updated.exc /= "" THEN Failed(last_updated.exc)
        ELSE Built([cls |-> "Wildfire", fire_id |-> data.fire_id,
                    latitude |-> data.latitude, longitude |-> data.longitude,
                    size_hectares |-> data.size_hectares,
                    status |-> status.member, start_date |-> start_date.dt,
                    last_updated |-> last_updated.dt, agency |-> data.agency,
                    fire_name |-> Get(data, "fire_name", PyNone),
                    cause |-> Get(data, "cause", PyNone)])

WeatherDataToDict(self) ==
    [timestamp |-> Isoformat(self.timestamp), latitude |-> self.latitude,
     longitude |-> self.longitude, wind_speed_kmh |-> self.wind_speed_kmh,
     wind_direction_degrees |-> self.wind_direction_degrees,
     temperature_celsius |-> self.temperature_celsius,
     relative_humidity |-> self.relative_humidity,
     pressure_kpa |-> self.pressure_kpa,
     precipitation_mm |-> self.precipitation_mm]

WeatherDataFromDict(data) ==
    LET timestamp == DatetimeFromIsoformat(data.timestamp)
    IN  IF timestamp.exc /= "" THEN Failed(timestamp.exc)
        ELSE Built([cls |-> "WeatherData", timestamp |-> timestamp.dt,
                    latitude |-> data.latitude, longitude |-> data.longitude,
                    wind_speed_kmh |-> data.wind_speed_kmh,
                    wind_direction_degrees |-> data.wind_direction_degrees,
                    temperature_celsius |-> data.temperature_celsius,
                    relative_humidity |-> data.relative_humidity,
                    pressure_kpa |-> data.pressure_kpa,
                    precipitation_mm |-> data.precipitation_mm])

WeatherForecastToDict(self) ==
    [location_lat |-> self.location_lat, location_lon |-> self.location_lon,
     forecast_time |-> Isoformat(self.forecast_time),
     forecasts |-> [i \in 1..Len(self.forecasts) |->
                       WeatherDataToDict(self.forecasts[i])]]

AQHIPredictionToDict(self) ==
    [timestamp |-> Isoformat(self.timestamp), latitude |-> self.latitude,
     longitude |-> self.longitude, aqhi_value |-> self.aqhi_value,
     pm25_concentration |-> self.pm25_concentration,
     source_fire_ids |-> self.source_fire_ids, confidence |-> self.confidence]

AQHIPredictionFromDict(data) ==
    LET timestamp == DatetimeFromIsoformat(data.timestamp)
    IN  IF timestamp.exc /= "" THEN Failed(timestamp.exc)
        ELSE Built([cls |-> "AQHIPrediction", timestamp |-> timestamp.dt,
                    latitude |-> data.latitude, longitude |-> data.longitude,
                    aqhi_value |-> data.aqhi_value,
                    pm25_concentration |-> data.pm25_concentration,
                    source_fire_ids |-> data.source_fire_ids,
                    confidence |-> data.confidence])

CommunityToDict(self) ==
    [name |-> self.name, latitude |-> self.latitude,
     longitude |-> self.longitude, population |-> self.population,
     region |-> self.region]

\* e.to_dict()
ToDict(e) ==
    CASE e.cls = "Wildfire"        -> WildfireToDict(e)
      [] e.cls = "WeatherData"     -> WeatherDataToDict(e)
      [] e.cls = "WeatherForecast" -> WeatherForecastToDict(e)
      [] e.cls = "AQHIPrediction"  -> AQHIPredictionToDict(e)
      [] e.cls = "Community"       -> CommunityToDict(e)

\* cls.from_dict(data): WeatherForecast and Community define none, so the
\* attribute lookup raises
FromDict(cls, data) ==
    CASE cls = "Wildfire"       -> WildfireFromDict(data)
      [] cls = "WeatherData"    -> WeatherDataFromDict(data)
      [] cls = "AQHIPrediction" -> AQHIPredictionFromDict(data)
      [] OTHER                  -> Failed("AttributeError")

SampleDatetimes ==
    {[y |-> 2025, mo |-> 8, d |-> 1, h |-> 0, mi |-> 0, sec |-> 0],
     [y |-> 2025, mo |-> 12, d |-> 31, h |-> 23, mi |-> 59, sec |-> 59],
     [y |-> 987, mo |-> 6, d |-> 15, h |-> 12, mi |-> 30, sec |-> 5]}

S_FIRE_NAME == <<"B","i","g"," ","P","o","n","d">>
S_LIGHTNING == <<"L","i","g","h","t","n","i","n","g">>
S_AVALON == <<"A","v","a","l","o","n">>

SampleWildfires ==
    {[cls |-> "Wildfire", fire_id |-> "NL-1", latitude |-> 475, longitude |-> -527,
      size_hectares |-> size_hectares, status |-> status,
      start_date |-> start_date,
      last_updated |-> [y |-> 2025, mo |-> 8, d |-> 2, h |-> 9, mi |-> 5, sec |-> 0],
      agency |-> "NL", fire_name |-> fire_name, cause |-> cause] :
        size_hectares \in {0, 1255}, status \in FireStatuses,
        start_date \in SampleDatetimes,
        fire_name \in {PyNone, Str(S_FIRE_NAME)},
        cause \in {PyNone, Str(S_LIGHTNING)}}

WeatherDataAt(timestamp) ==
    [cls |-> "WeatherData", timestamp |-> timestamp, latitude |-> 475,
     longitude |-> -527, wind_speed_kmh |-> 250, wind_direction_degrees |-> 2700,
     temperature_celsius |-> -35, relative_humidity |-> 800,
     pressure_kpa |-> 1013, precipitation_mm |-> 0]

SampleWeatherData == {WeatherDataAt(timestamp) : timestamp \in SampleDatetimes}

SampleWeatherForecasts ==
    {[cls |-> "WeatherForecast", location_lat |-> 475, location_lon |-> -527,
      forecast_time |-> forecast_time, forecasts |-> forecasts] :
        forecast_time \in SampleDatetimes,
        forecasts \in SeqsUpTo(SampleWeatherData, 1)}

SamplePredictions ==
    {[cls |-> "AQHIPrediction", timestamp |-> timestamp, latitude |-> 475,
      longitude |-> -527, aqhi_value |-> aqhi_value, pm25_concentration |-> 385,
      source_fire_ids |-> source_fire_ids, confidence |-> 75] :
        timestamp \in SampleDatetimes, aqhi_value \in {1, 4, 10},
        source_fire_ids \in {<<>>, <<"NL-1">>, <<"NL-1", "NL-2">>}}

SampleCommunities ==
    {[cls |-> "Community", name |-> "Holyrood", latitude |-> 474,
      longitude |-> -531, population |-> population, region |-> region] :
        population \in {PyNone, Num(24630)},
        region \in {PyNone, Str(S_AVALON)}}

RoundTripInit ==
    /\ rtIn \in SampleWildfires \cup SampleWeatherData \cup SampleWeatherForecasts
                    \cup SamplePredictions \cup SampleCommunities
    /\ rtOut = [done |-> FALSE, exc |-> "", back |-> NoEntity]
    /\ IngestParked /\ ImpactParked /\ ValidateParked /\ WeatherParked
    /\ RunParked /\ AliasParked /\ FilesParked /\ PublishParked

\* from_dict(to_dict(e)) for the entity e
CallFromDictOfToDict ==
    /\ ~rtOut.done
    /\ LET out == FromDict(rtIn.cls, ToDict(rtIn))
       IN  rtOut' = [done |-> TRUE, exc |-> out.exc, back |-> out.e]
    /\ UNCHANGED <<rtIn, roundTripOthers>>

RoundTripNext == CallFromDictOfToDict

SpecRoundTrip == RoundTripInit /\ [][RoundTripNext]_vars

\* C22 as stated: every entity of the data model (Wildfire, WeatherData,
\* WeatherForecast, AQHIPrediction, Community) has a to_dict and an inverse
\* from_dict, and from_dict(to_dict(e)) equals e in every field, for every
\* value of e including each of the five fire statuses and absent optional
\* fields.
C22_AsStated ==
    rtOut.done => rtOut.exc = "" /\ rtOut.back = rtIn

\* C22 for the three classes that define from_dict
C22_WhereDefined ==
    rtOut.done /\ rtIn.cls \in {"Wildfire", "WeatherData", "AQHIPrediction"} =>
        rtOut.exc = "" /\ rtOut.back = rtIn

-----------------------------------------------------------------------------
(* WeatherFetcher.fetch_bulk_weather.  Coordinates are hundredths of a
   degree and may be NaN; what the network gives for the current conditions
   of each call is the environment's choice; the forecast points come from
   the generator in _fetch_gdps_wind/_fetch_gdps_temperature, one per hour. *)

\* NL_WEATHER_STATIONS, in the order the dict is iterated in
NlWeatherStations == <<
    [station_id |-> "CYYT", lat |-> 4762, lon |-> -5275],
    [station_id |-> "CYQX", lat |-> 4894, lon |-> -5457],
    [station_id |-> "CYDF", lat |-> 4894, lon |-> -5789],
    [station_id |-> "CYHV", lat |-> 5332, lon |-> -6036],
    [station_id |-> "CYJT", lat |-> 4854, lon |-> -5855] >>

Coord(n) == [nan |-> FALSE, n |-> n]
NaNCoord == [nan |-> TRUE, n |-> 0]

StationDistanceSquared(lat, lon, station) ==
    (lat.n - station.lat) * (lat.n - station.lat)
        + (lon.n - station.lon) * (lon.n - station.lon)

\* _find_nearest_station: the first station at the least distance; with a
\* NaN coordinate no distance is below infinity, nearest_station stays None
\* and nearest_station[0] raises TypeError
FindNearestStation(lat, lon) ==
    IF lat.nan \/ lon.nan THEN [exc |-> "TypeError", station_id |-> ""]
    ELSE LET i == CHOOSE i \in 1..Len(NlWeatherStations) :
                    /\ \A j \in 1..Len(NlWeatherStations) :
                          StationDistanceSquared(lat, lon, NlWeatherStations[i])
                              <= StationDistanceSquared(lat, lon, NlWeatherStations[j])
                    /\ \A j \in 1..(i - 1) :
                          StationDistanceSquared(lat, lon, NlWeatherStations[j])
                              > StationDistanceSquared(lat, lon, NlWeatherStations[i])
         IN  [exc |-> "", station_id |-> NlWeatherStations[i].station_id]

NoForecast ==
    [k |-> "none", location_lat |-> NaNCoord, location_lon |-> NaNCoord,
     station_id |-> "", points |-> 0]

\* the body of the try block of fetch_weather_at_location: [exc, forecast];
\* current says whether _fetch_current_conditions gave a WeatherData
FetchWeatherAtLocationBody(lat, lon, hours_ahead, current) ==
    LET nearest == FindNearestStation(lat, lon)
        weather_points == (IF current THEN 1 ELSE 0) + Max(0, hours_ahead)
    IN  IF nearest.exc /= "" THEN [exc |-> nearest.exc, forecast |-> NoForecast]
        ELSE IF weather_points > 0
        THEN [exc |-> "",
              forecast |-> [k |-> "forecast", location_lat |-> lat,
                            location_lon |-> lon,
                            station_id |-> nearest.station_id,
                            points |-> weather_points]]
        ELSE [exc |-> "", forecast |-> NoForecast]

\* fetch_weather_at_location with the except clause left out: the decorator
\* retries and gives up with RetryError
FetchWeatherAtLocationNoCatch(lat, lon, hours_ahead, current) ==
    LET out == FetchWeatherAtLocationBody(lat, lon, hours_ahead, current)
    IN  IF out.exc /= "" THEN [exc |-> "RetryError", forecast |-> NoForecast]
        ELSE out

\* fetch_weather_at_location: any exception is logged and None returned
FetchWeatherAtLocation(lat, lon, hours_ahead, current) ==
    LET out == FetchWeatherAtLocationBody(lat, lon, hours_ahead, current)
    IN  IF out.exc /= "" THEN [exc |-> "", forecast |-> NoForecast] ELSE out

\* the loop of fetch_bulk_weather from the i-th location on:
\* [raised, forecasts, attempted]
RECURSIVE BulkWeatherFrom(_, _, _, _, _)
BulkWeatherFrom(locations, hours_ahead, current, i, acc) ==
    IF i > Len(locations) THEN acc
    ELSE LET out == FetchWeatherAtLocation(locations[i][1], locations[i][2],
                                           hours_ahead, current[i])
             attempted == Append(acc.attempted, locations[i])
         IN  IF out.exc /= ""
             THEN [raised |-> out.exc, forecasts |-> acc.forecasts,
                   attempted |-> attempted]
             ELSE BulkWeatherFrom(locations, hours_ahead, current, i + 1,
                      [raised |-> "",
                       forecasts |-> IF out.forecast.k = "forecast"
                                     THEN Append(acc.forecasts, out.forecast)
                                     ELSE acc.forecasts,
                       attempted |-> attempted])

FetchBulkWeather(locations, hours_ahead, current) ==
    BulkWeatherFrom(locations, hours_ahead, current, 1,
                    [raised |-> "", forecasts |-> <<>>, attempted |-> <<>>])

MaxWeatherLocations == 3

SampleWeatherLocations ==
    {<<Coord(4756), Coord(-5271)>>, <<Coord(4895), Coord(-5561)>>,
     <<NaNCoord, Coord(-5271)>>}

WeatherInit ==
    /\ wLocs \in SeqsUpTo(SampleWeatherLocations, MaxWeatherLocations)
    /\ wHours \in {0, 12}
    /\ wCurrent \in [1..MaxWeatherLocations -> BOOLEAN]
    /\ wOut = [done |-> FALSE, raised |-> "", forecasts |-> <<>>, attempted |-> <<>>]
    /\ IngestParked /\ ImpactParked /\ ValidateParked /\ RoundTripParked
    /\ RunParked /\ AliasParked /\ FilesParked /\ PublishParked

CallFetchBulkWeather ==
    /\ ~wOut.done
    /\ LET out == FetchBulkWeather(wLocs, wHours, wCurrent)
       IN  wOut' = [done |-> TRUE, raised |-> out.raised,
                    forecasts |-> out.forecasts, attempted |-> out.attempted]
    /\ UNCHANGED <<wLocs, wHours, wCurrent, weatherOthers>>

WeatherNext == CallFetchBulkWeather

SpecWeather == WeatherInit /\ [][WeatherNext]_vars

\* the fetch for the i-th location gives a forecast: the coordinates are
\* numbers and there is a current observation or at least one forecast hour
FetchSucceeds(i) ==
    /\ ~wLocs[i][1].nan /\ ~wLocs[i][2].nan
    /\ wCurrent[i] \/ wHours > 0

\* C23: in fetch_bulk_weather a failure to fetch weather for one location
\* never aborts the others: every location is attempted, the result holds one
\* forecast for each location whose fetch succeeded, in input order, and no
\* exception escapes.
C23_FailuresAreSkipped ==
    wOut.done =>
        LET succeeded == SelectSeq([i \in 1..Len(wLocs) |-> i], FetchSucceeds)
        IN  /\ wOut.raised = ""
            /\ wOut.attempted = wLocs
            /\ Len(wOut.forecasts) = Len(succeeded)
            /\ \A j \in 1..Len(succeeded) :
                  /\ wOut.forecasts[j].location_lat = wLocs[succeeded[j]][1]
                  /\ wOut.forecasts[j].location_lon = wLocs[succeeded[j]][2]

\* the fetch for the first of three locations fails and the two after it
\* are in the result
C23_Witness ==
    /\ wOut.done
    /\ Len(wLocs) = 3
    /\ wLocs[1][1].nan
    /\ FetchSucceeds(2) /\ FetchSucceeds(3)
    /\ Len(wOut.forecasts) = 2

-----------------------------------------------------------------------------
(* The two cycle entry points, DataUpdater.update_data and
   DataIngestionOrchestrator.run_ingestion, step by step.  cTrace records
   the stages in the order they ran; a fire is [status, location], the
   location in tenths of a degree; whether a call that can raise does so is
   the environment's choice. *)

\* a (lat, lon) of the cycle as fetch_bulk_weather takes it
WeatherLocation(location) == <<Coord(location[1] * 10), Coord(location[2] * 10)>>

LocationsOf(fires) == [i \in 1..Len(fires) |-> fires[i].location]

\* the forecasts fetch_bulk_weather returns when the network gives no
\* current conditions
ForecastsFor(locations) ==
    FetchBulkWeather([i \in 1..Len(locations) |-> WeatherLocation(locations[i])],
                     12, [i \in 1..Len(locations) |-> FALSE]).forecasts

CycleStart(entry, source) ==
    [entry |-> entry, source |-> source, wildfires |-> <<>>, locations |-> <<>>,
     forecasts |-> 0, predictions |-> 0, status |-> ""]

\* the except clause of either entry point
CycleFails ==
    /\ cPc' = "returned"
    /\ cData' = [cData EXCEPT !.status = "error"]
    /\ UNCHANGED cTrace

\* update_data, step 1: fetch_active_fires, which normalizes each record
UpdateFetchWildfires ==
    /\ cData.entry = "update_data" /\ cPc = "start"
    /\ \E raises \in BOOLEAN :
          IF raises THEN CycleFails
          ELSE /\ cPc' = "weather"
               /\ cData' = [cData EXCEPT !.wildfires = cData.source]
               /\ cTrace' = cTrace \o <<"fetch", "normalize">>
    /\ UNCHANGED runOthers

\* update_data, step 2: the weather of the first five fires
UpdateFetchWeather ==
    /\ cData.entry = "update_data" /\ cPc = "weather"
    /\ LET fire_locations ==
               LocationsOf(SubSeq(cData.wildfires, 1, Min(5, Len(cData.wildfires))))
       IN  cData' = [cData EXCEPT !.locations = fire_locations,
                                  !.forecasts = Len(ForecastsFor(fire_locations))]
    /\ cPc' = "predict"
    /\ cTrace' = Append(cTrace, "weather")
    /\ UNCHANGED runOthers

\* update_data, step 3: generate_predictions_with_real_aqhi
UpdatePredict ==
    /\ cData.entry = "update_data" /\ cPc = "predict"
    /\ cData' = [cData EXCEPT !.predictions = Len(Communities) * HorizonHours]
    /\ cPc' = "files"
    /\ cTrace' = Append(cTrace, "predict")
    /\ UNCHANGED runOthers

\* update_data, step 4: the static files are written
UpdateGenerateFiles ==
    /\ cData.entry = "update_data" /\ cPc = "files"
    /\ \E raises \in BOOLEAN :
          IF raises THEN CycleFails
          ELSE /\ cPc' = "publish"
               /\ cTrace' = Append(cTrace, "hand-off")
               /\ UNCHANGED cData
    /\ UNCHANGED runOthers

\* update_data, step 5: publish_to_github, which raises nothing
UpdatePublish ==
    /\ cData.entry = "update_data" /\ cPc = "publish"
    /\ cPc' = "returned"
    /\ cData' = [cData EXCEPT !.status = "success"]
    /\ cTrace' = Append(cTrace, "publish")
    /\ UNCHANGED runOthers

\* run_ingestion, step 1: _fetch_and_store_wildfires
IngestFetchAndStoreWildfires ==
    /\ cData.entry = "run_ingestion" /\ cPc = "start"
    /\ \E raises \in BOOLEAN :
          IF raises THEN CycleFails
          ELSE /\ cPc' = "weather"
               /\ cData' = [cData EXCEPT !.wildfires = cData.source]
               /\ cTrace' = cTrace \o <<"fetch", "normalize", "hand-off">>
    /\ UNCHANGED runOthers

\* run_ingestion, step 2: _fetch_and_store_weather
IngestFetchAndStoreWeather ==
    /\ cData.entry = "run_ingestion" /\ cPc = "weather"
    /\ \E raises \in BOOLEAN :
          IF raises THEN CycleFails
          ELSE LET out_of_control ==
                       SelectSeq(cData.wildfires,
                                 LAMBDA fire : fire.status = "OUT_OF_CONTROL")
                   oc_fires ==
                       IF out_of_control /= <<>> THEN out_of_control
                       ELSE SubSeq(cData.wildfires, 1, Min(10, Len(cData.wildfires)))
                   locations == GetUniqueLocations(LocationsOf(oc_fires), 10)
               IN  /\ cData' = [cData EXCEPT !.locations = locations,
                                             !.forecasts = Len(ForecastsFor(locations))]
                   /\ cPc' = "metadata"
                   /\ cTrace' = cTrace \o <<"dedupe", "weather", "hand-off">>
    /\ UNCHANGED runOthers

\* run_ingestion, step 3: _update_ingestion_metadata, which raises nothing
IngestUpdateMetadata ==
    /\ cData.entry = "run_ingestion" /\ cPc = "metadata"
    /\ cPc' = "returned"
    /\ cData' = [cData EXCEPT !.status = "success"]
    /\ cTrace' = Append(cTrace, "hand-off")
    /\ UNCHANGED runOthers

MaxCycleFires == 2

SampleCycleFires ==
    {[status |-> status, location |-> location] :
        status \in {"OUT_OF_CONTROL", "UNDER_CONTROL"},
        location \in {<<470, -530>>, <<475, -530>>}}

CycleInit ==
    /\ cPc = "start"
    /\ cTrace = <<>>
    /\ \E entry \in {"update_data", "run_ingestion"} :
       \E source \in SeqsUpTo(SampleCycleFires, MaxCycleFires) :
           cData = CycleStart(entry, source)
    /\ IngestParked /\ ImpactParked /\ ValidateParked /\ RoundTripParked
    /\ WeatherParked /\ AliasParked /\ FilesParked /\ PublishParked

CycleNext ==
    \/ UpdateFetchWildfires \/ UpdateFetchWeather \/ UpdatePredict
    \/ UpdateGenerateFiles \/ UpdatePublish
    \/ IngestFetchAndStoreWildfires \/ IngestFetchAndStoreWeather
    \/ IngestUpdateMetadata

SpecCycle == CycleInit /\ [][CycleNext]_vars

\* the stages of the pipeline that ran, in the order they ran
StagesRun ==
    SelectSeq(cTrace, LAMBDA stage :
        stage \in {"fetch", "normalize", "dedupe", "predict", "hand-off"})

\* C24 as stated: in every ingestion cycle the stages run once each in the
\* order fetch, normalize, dedupe, predict, hand-off to
\* persistence/publication: no stage starts before the one before it has
\* finished and no stage is skipped, in both cycle entry points (update_data
\* and run_ingestion).  Read here for the cycles that end in success.
C24_AsStated ==
    cPc = "returned" /\ cData.status = "success" =>
        StagesRun = <<"fetch", "normalize", "dedupe", "predict", "hand-off">>

\* what the code keeps: a stage runs only after the stages the code has
\* before it, update_data never dedupes and run_ingestion never predicts
C24_StagesOfTheCode ==
    cPc = "returned" /\ cData.status = "success" =>
        IF cData.entry = "update_data"
        THEN StagesRun = <<"fetch", "normalize", "predict", "hand-off">>
        ELSE StagesRun = <<"fetch", "normalize", "hand-off", "dedupe",
                           "hand-off", "hand-off">>

-----------------------------------------------------------------------------
(* The identifiers of the fires one fetch_active_fires call returns *)

\* C25 as stated: within the result of one fetch_active_fires call no two
\* Fires have the same identifier, so storing the result keyed by fire_id
\* keeps one document per fetched fire.
C25_AsStated ==
    pc = "done" =>
        /\ \A i, j \in 1..Len(result) :
              i /= j => result[i].fire_id /= result[j].fire_id
        /\ Cardinality({result[i].fire_id : i \in 1..Len(result)}) = Len(result)

\* two fires without a name in the source, both given the identifier
\* generated from one reading of the clock
C25_SameGeneratedId ==
    /\ pc = "done"
    /\ Len(result) = 2
    /\ result[1].fire_id = result[2].fire_id
    /\ result[1].fire_id = GeneratedFireId(wallclock)

-----------------------------------------------------------------------------
(* _create_wildfire_from_properties on property bags that spell a field
   under one or more of its alias keys *)

EmptyDict == [key \in {} |-> PyNone]

\* the dictionaries of a set, each as it is and with the key set to each value
WithKey(dicts, key, values) ==
    dicts \cup {Put(d, key, v) : d \in dicts, v \in values}

AliasProperties ==
    LET status == WithKey(WithKey({EmptyDict}, "status", {Str(<<>>), Str(S_UC)}),
                          "STATUS", {Str(S_OC)})
        size == WithKey(WithKey(WithKey(status, "hectares", {Num(0), Num(105)}),
                                "HECTARES", {Num(200)}),
                        "area", {Num(300)})
        fire_id == WithKey(WithKey(WithKey(size, "fire_id", {Str(<<>>), Str(S_F1)}),
                                   "FIRE_ID", {Str(S_F2)}),
                           "irwinID", {Str(S_F3)})
    IN  WithKey(WithKey(fire_id, "start_date", {Str(S_DATE_SPACE)}),
                "START_DATE", {Str(S_DATE_T)})

AliasInit ==
    /\ kProps \in AliasProperties
    /\ kOut = [done |-> FALSE, fires |-> <<>>]
    /\ IngestParked /\ ImpactParked /\ ValidateParked /\ RoundTripParked
    /\ WeatherParked /\ RunParked /\ FilesParked /\ PublishParked

CallCreateWildfireFromProperties ==
    /\ ~kOut.done
    /\ kOut' = [done |-> TRUE,
                fires |-> CreateWildfireFromProperties(kProps, 475, -530, 0)]
    /\ UNCHANGED <<kProps, aliasOthers>>

AliasNext == CallCreateWildfireFromProperties

SpecAlias == AliasInit /\ [][AliasNext]_vars

\* the value of the first of the alias keys that the record has, else the
\* default
FirstPresent(properties, aliases, default) ==
    IF \E i \in 1..Len(aliases) : aliases[i] \in DOMAIN properties
    THEN properties[aliases[CHOOSE i \in 1..Len(aliases) :
             /\ aliases[i] \in DOMAIN properties
             /\ \A j \in 1..(i - 1) : aliases[j] \notin DOMAIN properties]]
    ELSE default

\* C26 as stated: for each canonical field, normalization takes the value of
\* the first alias key present in the record, in the listed order (status:
\* 'status' then 'STATUS'; size: 'hectares', 'HECTARES', 'area'; identifier:
\* 'fire_id', 'FIRE_ID', 'irwinID'; dates likewise), and uses the default
\* only when none of the field's aliases is present; e.g. a record with no
\* 'status' key and 'STATUS' = 'OC' yields OUT_OF_CONTROL.
C26_AsStated ==
    kOut.done /\ kOut.fires /= <<>> =>
        LET fire == kOut.fires[1]
            status == FirstPresent(kProps, <<"status", "STATUS">>, Str(S_UNK))
            size == Float(FirstPresent(kProps, <<"hectares", "HECTARES", "area">>,
                                       Num(0)))
            fire_id == FirstPresent(kProps, <<"fire_id", "FIRE_ID", "irwinID">>,
                                    Str(GeneratedFireId(0)))
            start_date ==
                ParseDate(FirstPresent(kProps,
                    <<"start_date", "START_DATE", "discovered_date">>, PyNone))
        IN  /\ fire.status = ParseFireStatus(status.s)
            /\ fire.size_hectares.n = size.n
            /\ fire.fire_id = ToStr(fire_id)
            /\ fire.start_date = IF start_date.none THEN Now(0) ELSE start_date.dt

\* the example of C26: no 'status' key and 'STATUS' = 'OC'; the fire made is
\* UNKNOWN, because get('status', 'UNK') gives the truthy default
C26_ExampleGivesUnknown ==
    /\ kOut.done /\ kOut.fires /= <<>>
    /\ "status" \notin DOMAIN kProps
    /\ "STATUS" \in DOMAIN kProps /\ kProps["STATUS"] = Str(S_OC)
    /\ kOut.fires[1].status = "UNKNOWN"

\* the example of C26 never gives OUT_OF_CONTROL
C26_ExampleNeverOutOfControl ==
    (/\ kOut.done /\ kOut.fires /= <<>>
     /\ "status" \notin DOMAIN kProps
     /\ "STATUS" \in DOMAIN kProps)
        => kOut.fires[1].status /= "OUT_OF_CONTROL"

-----------------------------------------------------------------------------
(* The predictions against the breakpoint table and the no-fire prediction *)

\* the PM2.5, in tenths, lies in the concentration band of the index; the
\* table names no band for an index outside 1..10
InBandOfIndex(aqhi_value, pm25) ==
    CASE aqhi_value \in 1..3  -> pm25 <= 120
      [] aqhi_value \in 4..6  -> 120 <= pm25 /\ pm25 <= 350
      [] aqhi_value \in 7..8  -> 350 <= pm25 /\ pm25 <= 550
      [] aqhi_value \in 9..10 -> 550 <= pm25 /\ pm25 <= 1500
      [] OTHER -> TRUE

\* C27 as stated: in every prediction produced by
\* generate_predictions_with_real_aqhi the pair (aqhi_value,
\* pm25_concentration) agrees with the breakpoint table: the PM2.5 lies in
\* the concentration band of its index (index 1-3: at most 12; 4-6: 12 to 35;
\* 7-8: 35 to 55; 9-10: 55 to 150), also after a fire impact was added and
\* after the index was limited.
C27_AsStated ==
    gOut.done /\ gOut.raised = "" =>
        \A i \in 1..Len(gOut.predictions) :
            InBandOfIndex(gOut.predictions[i].aqhi_value,
                          gOut.predictions[i].pm25_concentration)

\* C27 for the predictions whose index is the baseline's, the baseline being
\* at most 10: the pair agrees with the table
C27_WithoutImpact ==
    gOut.done /\ gOut.raised = "" =>
        LET baseline == Baseline
        IN  \A i \in 1..Len(gOut.predictions) :
                (/\ baseline <= 10
                 /\ gOut.predictions[i].aqhi_value = baseline)
                    => InBandOfIndex(gOut.predictions[i].aqhi_value,
                                     gOut.predictions[i].pm25_concentration)

\* C28 as stated: a fire is listed in a prediction's source_fire_ids only if
\* it raised that prediction's index or PM2.5: a prediction with a non-empty
\* contributor list has an index or a PM2.5 strictly above the no-fire
\* prediction for the same community and hour.
C28_AsStated ==
    gOut.done /\ gOut.raised = "" =>
        LET baseline == Baseline
        IN  \A c \in 1..Len(Communities) : \A hour \in 0..(HorizonHours - 1) :
                LET no_fire == PredictionFor(Communities[c], hour, baseline,
                                             <<>>, gNow)
                IN  PredAt(c, hour).source_fire_ids /= <<>> =>
                        \/ PredAt(c, hour).aqhi_value > no_fire.aqhi_value
                        \/ PredAt(c, hour).pm25_concentration
                               > no_fire.pm25_concentration

\* a fire 70.9 km from St. Johns is listed in a prediction that equals the
\* no-fire prediction but for the list and the confidence
C28_ListedWithoutImpact ==
    /\ gOut.done /\ gOut.raised = ""
    /\ gFires = <<FireInside>>
    /\ PredAt(1, 0).source_fire_ids = <<"OC-INSIDE">>
    /\ PredAt(1, 0).aqhi_value = Baseline
    /\ PredAt(1, 0).pm25_concentration = Pm25FromAqhi(Baseline)

-----------------------------------------------------------------------------
(* StaticDataGenerator._generate_community_files on the predictions of
   generate_predictions_with_real_aqhi; coordinates in 0.0001 degree *)

\* communities, in the order the dict is iterated in
FileCommunities == <<
    [name |-> "st-johns",             lat |-> 475615, lon |-> -527126],
    [name |-> "mount-pearl",          lat |-> 475189, lon |-> -528061],
    [name |-> "conception-bay-south", lat |-> 475297, lon |-> -529547],
    [name |-> "paradise",             lat |-> 475361, lon |-> -528579],
    [name |-> "holyrood",             lat |-> 473875, lon |-> -531356],
    [name |-> "bay-roberts",          lat |-> 475989, lon |-> -532644],
    [name |-> "carbonear",            lat |-> 477369, lon |-> -532144],
    [name |-> "harbour-grace",        lat |-> 477050, lon |-> -532144] >>

\* abs(pred.latitude - lat) < 0.1 and abs(pred.longitude - lon) < 0.1
IsNearCommunity(pred, coords) ==
    /\ Abs(pred.latitude - coords.lat) < 1000
    /\ Abs(pred.longitude - coords.lon) < 1000

\* community_data for one community
CommunityData(coords, predictions) ==
    LET community_predictions ==
            SelectSeq(predictions, LAMBDA pred : IsNearCommunity(pred, coords))
    IN  [community |-> coords.name,
         coordinates |-> [lat |-> coords.lat, lon |-> coords.lon],
         current_aqhi |-> IF community_predictions /= <<>>
                          THEN community_predictions[1].aqhi_value ELSE 1,
         predictions |-> SubSeq(community_predictions, 1,
                                Min(12, Len(community_predictions)))]

\* _generate_community_files: what each file holds, file by file
GenerateCommunityFiles(predictions) ==
    [c \in 1..Len(FileCommunities) |-> CommunityData(FileCommunities[c], predictions)]

\* out of control, 46.5 km north of St. Johns and 52.2 km from Mount Pearl
FireNorth == Fire("OC-NORTH", 479800, -527126, 5000, "OUT_OF_CONTROL")

FilesInit ==
    /\ \E source \in PredictSources : aRss = source[1] /\ aPage = source[2]
    /\ aOut = <<>>
    /\ gFires \in SeqsUpTo({FireNearLarge, FireInside, FireNorth}, MaxFires)
    /\ gNow = 5
    /\ gOut = PredictNotCalled
    /\ fOut = [done |-> FALSE, files |-> <<>>]
    /\ IngestParked /\ DedupParked /\ ConvertParked
    /\ ValidateParked /\ RoundTripParked /\ WeatherParked /\ RunParked
    /\ AliasParked /\ PublishParked

CallGenerateCommunityFiles ==
    /\ gOut.done /\ gOut.raised = ""
    /\ ~fOut.done
    /\ fOut' = [done |-> TRUE, files |-> GenerateCommunityFiles(gOut.predictions)]
    /\ UNCHANGED <<ingestVars, impactVars, validateVars, roundTripVars,
                   weatherVars, runVars, aliasVars, publishVars>>

FilesNext == CallGeneratePredictions \/ CallGenerateCommunityFiles

SpecFiles == FilesInit /\ [][FilesNext]_vars

\* C29 as stated: each community file written by _generate_community_files
\* holds only predictions made for that community's own coordinates, and its
\* current_aqhi is the index of that community's own first prediction (1 when
\* it has none), for the prediction list that
\* generate_predictions_with_real_aqhi produces for the eight communities.
C29_AsStated ==
    fOut.done =>
        \A c \in 1..Len(FileCommunities) :
            /\ \A i \in 1..Len(fOut.files[c].predictions) :
                  /\ fOut.files[c].predictions[i].latitude = FileCommunities[c].lat
                  /\ fOut.files[c].predictions[i].longitude = FileCommunities[c].lon
            /\ fOut.files[c].current_aqhi = PredAt(c, 0).aqhi_value

\* the file of Mount Pearl holds the twelve predictions of St. Johns and
\* shows an index that is not Mount Pearl's
C29_NeighboursPredictions ==
    /\ fOut.done
    /\ \A i \in 1..12 : fOut.files[2].predictions[i] = PredAt(1, i - 1)
    /\ fOut.files[2].current_aqhi /= PredAt(2, 0).aqhi_value

\* the five files that do hold their own community's predictions
C29_OwnPredictions ==
    fOut.done =>
        \A c \in {1, 3, 5, 6, 7} :
            /\ fOut.files[c].predictions = [hour \in 1..12 |-> PredAt(c, hour - 1)]
            /\ fOut.files[c].current_aqhi = PredAt(c, 0).aqhi_value

-----------------------------------------------------------------------------
(* DataUpdater.publish_to_github, git step by git step.  pbRepo is the
   working copy: the branch checked out, the files in temp_data and in the
   root, what is staged, committed and pushed.  Whether a git command or the
   copy fails is the environment's choice. *)

\* either except clause: the error is logged and the method returns
PublishFails ==
    /\ pbPc' = "returned"

\* subprocess.run([git, "checkout", "gh-pages"], check=True)
PublishCheckoutGhPages ==
    /\ pbPc = "checkout-gh-pages"
    /\ \E ok \in BOOLEAN :
          IF ok THEN /\ pbPc' = "copy"
                     /\ pbRepo' = [pbRepo EXCEPT !.branch = "gh-pages"]
          ELSE PublishFails /\ UNCHANGED pbRepo
    /\ UNCHANGED publishOthers

\* the files of temp_data are copied to the root and temp_data is removed
PublishCopyFiles ==
    /\ pbPc = "copy"
    /\ \E ok \in BOOLEAN :
          IF ok THEN /\ pbPc' = "add"
                     /\ pbRepo' = [pbRepo EXCEPT !.root = pbRepo.root \cup pbRepo.temp,
                                                 !.temp = {}]
          ELSE PublishFails /\ UNCHANGED pbRepo
    /\ UNCHANGED publishOthers

\* subprocess.run([git, "add", "*.json", "*.geojson"], check=True)
PublishAdd ==
    /\ pbPc = "add"
    /\ \E ok \in BOOLEAN :
          IF ok /\ pbRepo.root /= {}
          THEN /\ pbPc' = "commit"
               /\ pbRepo' = [pbRepo EXCEPT !.staged = pbRepo.root]
          ELSE PublishFails /\ UNCHANGED pbRepo
    /\ UNCHANGED publishOthers

\* subprocess.run([git, "commit", ...], check=False): a failure is ignored
PublishCommit ==
    /\ pbPc = "commit"
    /\ pbPc' = "push"
    /\ \E ok \in BOOLEAN :
          pbRepo' = IF ok THEN [pbRepo EXCEPT !.committed = pbRepo.staged,
                                              !.staged = {}]
                    ELSE pbRepo
    /\ UNCHANGED publishOthers

\* subprocess.run([git, "push", "origin", "gh-pages"], check=True)
PublishPush ==
    /\ pbPc = "push"
    /\ \E ok \in BOOLEAN :
          IF ok THEN /\ pbPc' = "checkout-main"
                     /\ pbRepo' = [pbRepo EXCEPT !.pushed = pbRepo.committed]
          ELSE PublishFails /\ UNCHANGED pbRepo
    /\ UNCHANGED publishOthers

\* subprocess.run([git, "checkout", "main"], check=True)
PublishCheckoutMain ==
    /\ pbPc = "checkout-main"
    /\ pbPc' = "returned"
    /\ \E ok \in BOOLEAN :
          pbRepo' = IF ok THEN [pbRepo EXCEPT !.branch = "main"] ELSE pbRepo
    /\ UNCHANGED publishOthers

StaticFiles == {"data.json", "data-pretty.json", "smoke-overlay.geojson"}

\* the cycle starts on main; gh-pages may hold files of an earlier cycle
PublishInit ==
    /\ pbPc = "checkout-gh-pages"
    /\ \E temp \in SUBSET StaticFiles : \E root \in {{}, {"data.json"}} :
          pbRepo = [branch |-> "main", temp |-> temp, root |-> root,
                    staged |-> {}, committed |-> {}, pushed |-> {}]
    /\ IngestParked /\ ImpactParked
    /\ ValidateParked /\ RoundTripParked /\ WeatherParked /\ RunParked
    /\ AliasParked /\ FilesParked

PublishNext ==
    \/ PublishCheckoutGhPages \/ PublishCopyFiles \/ PublishAdd
    \/ PublishCommit \/ PublishPush \/ PublishCheckoutMain

SpecPublish == PublishInit /\ [][PublishNext]_vars

\* C30 as stated: after publish_to_github returns, the repository is checked
\* out on the main branch again, whichever git step (checkout of gh-pages,
\* add, commit, push) failed or succeeded.
C30_AsStated ==
    pbPc = "returned" => pbRepo.branch = "main"

\* publish_to_github has returned after a push that failed: the commit is
\* made, nothing is pushed and gh-pages is still checked out
C30_LeftOnGhPages ==
    /\ pbPc = "returned"
    /\ pbRepo.branch = "gh-pages"
    /\ pbRepo.committed /= {} /\ pbRepo.pushed = {}

====
